---- MODULE Spec2Model ----
(***************************************************************************)
(* Model of the reactive-collection emulator of jazz-mock                  *)
(* (src/src/core/reactive-collection.ts) and of the mutation-recording     *)
(* $jazz API it builds on (src/src/core/jazz-api.ts).                      *)
(*                                                                         *)
(* One collection is under test per behaviour: a reactive record (Proxy    *)
(* over a plain object), a reactive list (array with two non-enumerable    *)
(* properties) or a $jazz API created by createMockJazzAPI.  Time is the   *)
(* timer queue's clock: a timer callback runs when the clock reaches its   *)
(* due time, before the clock moves on (the semantics of setTimeout under  *)
(* vi.advanceTimersByTime).                                                *)
(***************************************************************************)
EXTENDS Integers, Sequences, FiniteSets, TLC

VARIABLES
  now,            \* clock of the timer queue
  variant,        \* "record" | "list" | "api": the collection under test
  simulateAsync,  \* options.simulateAsyncLoading ?? false
  loadDelay,      \* options.asyncLoadDelayMs
  fileKind,       \* what the toBlob of this run's attachment does
  withTarget,     \* createMockJazzAPI: options.target given (createMockCoMap: options.trackMutations)
  data,           \* record: const data = {} ; api: the target object ;
                  \* list: the own properties of the array other than its elements
  list,           \* list: const data = [...initialItems]
  wrappers,       \* one entry per createDelayedBlobLoader call (closure state + its timer)
  unhandled,      \* wrappers whose async timer callback ended in a rejected promise
  others,         \* the timers that code other than the wrappers scheduled with setTimeout
  last,           \* the most recent call: which operation, on which key / index
  ops,            \* number of mutating calls made so far
  written,        \* history: per key, the last value written through set / delete / assignment to a non-meta key
  writtenPlain,   \* history: the same, counting only assignments to keys that do not start with '$'
  calls,          \* per $jazz method, mock.calls of its vi.fn spy: the argument lists recorded
  made,           \* history: the $jazz calls the test made, in the order it made them
  initialItems,   \* the caller's array that createReactiveList was given
  peerData,       \* a second record, made by another call of createReactiveRecord: its data
  peerList,       \* a second list, made from the same initialItems: its elements
  peerCalls,      \* the mock.calls of the spies of the second collection's $jazz
  setup,          \* setupJazzMocks: its options, how far the call has come, what it registered
  world,          \* what the cleanup resets (id counter, FileStream registry, React mocks) and the test run
  backendType,    \* JazzTestContext: backend.type, "mock" | "jazz"
  accounts,       \* the jazz backend's `accounts` array (createJazzBackend), as account ids
  creating,       \* the createAccount calls of the test: where each is, and what it holds
  links,          \* the pairs of accounts jazzTesting.linkAccounts has linked
  sync,           \* how the last ctx.waitForSync() ended
  groups,         \* the groups made so far: createMockGroup's closure and, when wrapped, wrapGroup's roles
  account,        \* createMockAccount: the root object of the caller and account.root
  hooks,          \* per mock context (the module's own and the isolated ones), what its hooks return
  cleared         \* history: the calls of clearBlobLoaderTimers made so far (which wrappers had their timer
                  \* pending at one, and how many wrappers there were at the first)

vars == <<now, variant, simulateAsync, loadDelay, fileKind, withTarget, data, list,
          wrappers, unhandled, others, last, ops, written, writtenPlain,
          calls, made, initialItems, peerData, peerList, peerCalls, setup, world,
          backendType, accounts, creating, links, sync, groups, account, hooks, cleared>>

\* The state outside one collection and the timer queue.  The operations of a
\* collection are written over the collection's own state; a specification
\* that does not observe the spies' logs, the caller's array or a second
\* collection holds them fixed.
peers == <<initialItems, peerData, peerList, peerCalls>>
\* the test context with its backend, and the factories next to the collections
fluent == <<backendType, accounts, creating, links, sync, groups>>
outside == <<fluent, account, hooks, cleared>>
aux == <<calls, made, peers, setup, world, outside>>
\* the same, for a call of clearBlobLoaderTimers
auxOfClear == <<calls, made, peers, setup, world, fluent, account, hooks>>

\* one collection and the timer queue
collection == <<now, variant, simulateAsync, loadDelay, fileKind, withTarget, data, list,
                wrappers, unhandled, others, last, ops, written, writtenPlain>>

----------------------------------------------------------------------------
(* Bounds of the model *)

MaxTime == 3
MaxDelay == 2
MaxWrappers == 2
MaxLen == 2
MaxOps == 3
MaxOthers == 2
MaxCalls == 3
MaxPeerOps == 2
MaxIds == 2
MaxTests == 2
MaxAccounts == 3     \* the accounts of one test context, the primary one included
MaxGroups == 2       \* the groups one test makes
MaxMemberOps == 2    \* the addMember / removeMember calls one test makes
MaxContexts == 2     \* the isolated mock contexts one test makes
MaxHookOps == 3      \* the calls that configure or reset hook mocks

----------------------------------------------------------------------------
(* Values *)

\* A JavaScript value.  t: its type; ref: the identity of an object (the number
\* itself for a primitive); name: an ordinary field; fkind: the `file` field
\* ("nofield": none, "wrapper": a delayed blob loader, otherwise the kind of the
\* original file's toBlob); fw: the wrapper, when fkind = "wrapper".
Val(t, ref, name, fkind, fw) ==
  [t |-> t, ref |-> ref, name |-> name, fkind |-> fkind, fw |-> fw]

Undefined == Val("undefined", 0, "", "nofield", 0)
Null      == Val("null", 0, "", "nofield", 0)
Prim1     == Val("prim", 1, "", "nofield", 0)
PlainObj  == Val("object", 1, "n1", "nofield", 0)
FileObj(kind) == Val("object", 2, "photo.png", kind, 0)
\* not a value: the slot of a key the object does not own
Absent    == Val("absent", 0, "", "nofield", 0)
TrueVal   == Val("bool", 1, "", "nofield", 0)
JazzApi   == Val("jazzapi", 0, "", "nofield", 0)
\* the function a plain object inherits from Object.prototype under InheritedKeys
ProtoFn   == Val("function", 0, "", "nofield", 0)

\* What the original file.toBlob does when called:
\*   blob/undef/null: returns that synchronously;  throws: throws synchronously;
\*   pBlob/pUndef/pNull: returns a promise resolving to that;  pReject: a promise
\*   that rejects;  absent: the file has no toBlob function.
Kinds == {"blob", "undef", "null", "throws", "pBlob", "pUndef", "pNull", "pReject", "absent"}
PromiseKinds == {"pBlob", "pUndef", "pNull", "pReject"}

\* the values a test passes to set / push / an assignment in this run
Values == {Undefined, Null, Prim1, PlainObj, FileObj(fileKind)}

MetaKeys == {"$isLoaded", "$jazz"}
\* "$foo": '$'-prefixed but no meta-attribute; "toString": inherited from Object.prototype
DollarKeys == {"$isLoaded", "$jazz", "$foo"}
InheritedKeys == {"toString"}
Keys == {"a", "$foo", "$isLoaded", "$jazz", "toString"}

\* the values a test assigns directly (record[k] = v); the Proxy set trap never looks at the value
AssignValues == {Prim1, FileObj(fileKind)}

NoCall == [op |-> "none", key |-> ""]
Call(op, key) == [op |-> op, key |-> key]

----------------------------------------------------------------------------
(* createDelayedBlobLoader *)

\* let blobReady = false; let blob = null; setTimeout(..., delayMs)
NewLoader(kind, delayMs) ==
  [kind |-> kind, due |-> now + delayMs, timer |-> "scheduled", pc |-> "idle",
   blobReady |-> FALSE, blob |-> "null", calls |-> 0]

\* toBlob: () => blobReady ? blob : undefined
ToBlob(w) == IF w.blobReady THEN w.blob ELSE "undefined"

\* result ?? null
Nullish(r) == IF r = "undefined" THEN "null" ELSE r

SyncResult(kind) ==
  CASE kind = "blob" -> "blob"
    [] kind = "undef" -> "undefined"
    [] kind = "null" -> "null"

PromiseResult(kind) ==
  CASE kind = "pBlob" -> "blob"
    [] kind = "pUndef" -> "undefined"
    [] kind = "pNull" -> "null"

\* a timer that is due: it runs before anything else does
Due(i) == wrappers[i].timer = "scheduled" /\ wrappers[i].due <= now

\* a timer of unrelated code: setTimeout(() => { called = true }, d).  `after`
\* is the number of wrappers made before it, which places it in the timer queue.
OtherTimer(d) == [due |-> now + d, after |-> Len(wrappers), state |-> "scheduled"]
OtherDue(j) == others[j].state = "scheduled" /\ others[j].due <= now

NoDue == (\A i \in 1..Len(wrappers) : ~Due(i)) /\ (\A j \in 1..Len(others) : ~OtherDue(j))

\* the timer of wrapper i was scheduled before the unrelated timer j
WrapperFirst(i, j) == i <= others[j].after

\* new Blob(['mock'], { type: 'image/png' }): the blob of a file without a toBlob function
NoDefaultBlob == "null"
DefaultBlob == "defaultBlob"

\* The timer callback, up to its first await or its end.
TimerBodyReadyFirst(w) ==
  IF w.kind = "absent"
    THEN [w EXCEPT !.timer = "fired", !.pc = "done", !.blob = DefaultBlob, !.blobReady = TRUE]
  ELSE IF w.kind = "throws"
    THEN [w EXCEPT !.timer = "fired", !.pc = "threw", !.calls = @ + 1]
  ELSE IF w.kind \in PromiseKinds
    THEN [w EXCEPT !.timer = "fired", !.pc = "awaiting", !.calls = @ + 1, !.blobReady = TRUE]
  ELSE [w EXCEPT !.timer = "fired", !.pc = "done", !.calls = @ + 1,
                 !.blob = Nullish(SyncResult(w.kind)), !.blobReady = TRUE]
TimerBody(w) ==
  IF w.kind = "absent"
    THEN [w EXCEPT !.timer = "fired", !.pc = "done", !.blob = DefaultBlob, !.blobReady = TRUE]
  ELSE IF w.kind = "throws"
    THEN [w EXCEPT !.timer = "fired", !.pc = "threw", !.calls = @ + 1]
  ELSE IF w.kind \in PromiseKinds
    THEN [w EXCEPT !.timer = "fired", !.pc = "awaiting", !.calls = @ + 1]
  ELSE [w EXCEPT !.timer = "fired", !.pc = "done", !.calls = @ + 1,
                 !.blob = Nullish(SyncResult(w.kind)), !.blobReady = TRUE]

TimerFire(i) ==
  /\ Due(i)
  \* timers run in order of due time, then in the order they were scheduled
  /\ \A j \in 1..Len(wrappers) :
        Due(j) => ~(wrappers[j].due < wrappers[i].due
                    \/ (wrappers[j].due = wrappers[i].due /\ j < i))
  /\ \A j \in 1..Len(others) :
        OtherDue(j) => ~(others[j].due < wrappers[i].due
                         \/ (others[j].due = wrappers[i].due /\ ~WrapperFirst(i, j)))
  /\ wrappers' = [wrappers EXCEPT ![i] = TimerBody(wrappers[i])]
  /\ unhandled' = IF wrappers[i].kind = "throws" THEN unhandled \cup {i} ELSE unhandled
  /\ last' = NoCall
  /\ UNCHANGED <<others, now, variant, simulateAsync, loadDelay, fileKind, withTarget, data, list,
                 ops, written, writtenPlain>>

\* The rest of the callback, once the awaited promise has settled:
\* blob = await result; blobReady = true  (a rejection leaves the callback by throwing)
AwaitBody(w) ==
  IF w.kind = "pReject"
    THEN [w EXCEPT !.pc = "threw"]
    ELSE [w EXCEPT !.pc = "done", !.blob = PromiseResult(w.kind), !.blobReady = TRUE]

AwaitResume(i) ==
  /\ wrappers[i].pc = "awaiting"
  /\ wrappers' = [wrappers EXCEPT ![i] = AwaitBody(wrappers[i])]
  /\ unhandled' = IF wrappers[i].kind = "pReject" THEN unhandled \cup {i} ELSE unhandled
  /\ last' = NoCall
  /\ UNCHANGED <<others, now, variant, simulateAsync, loadDelay, fileKind, withTarget, data, list,
                 ops, written, writtenPlain>>

\* The clock is observed only through timers (due = now + delay), so it
\* advances only once there is one.
Tick ==
  /\ now < MaxTime
  /\ Len(wrappers) > 0 \/ Len(others) > 0
  /\ NoDue
  /\ now' = now + 1
  /\ last' = NoCall
  /\ UNCHANGED <<others, variant, simulateAsync, loadDelay, fileKind, withTarget, data, list,
                 wrappers, unhandled, ops, written, writtenPlain>>

\* unrelated code schedules a timer
SetTimeout(d) ==
  /\ NoDue
  /\ ops < MaxOps
  /\ Len(others) < MaxOthers
  /\ others' = Append(others, OtherTimer(d))
  /\ last' = Call("setTimeout", "")
  /\ ops' = ops + 1
  /\ UNCHANGED <<now, variant, simulateAsync, loadDelay, fileKind, withTarget, data, list,
                 wrappers, unhandled, written, writtenPlain>>

\* its callback runs, in the queue's order
OtherFire(j) ==
  /\ OtherDue(j)
  /\ \A i \in 1..Len(others) :
        OtherDue(i) => ~(others[i].due < others[j].due
                         \/ (others[i].due = others[j].due /\ i < j))
  /\ \A i \in 1..Len(wrappers) :
        Due(i) => ~(wrappers[i].due < others[j].due
                    \/ (wrappers[i].due = others[j].due /\ WrapperFirst(i, j)))
  /\ others' = [others EXCEPT ![j].state = "fired"]
  /\ last' = NoCall
  /\ UNCHANGED <<now, variant, simulateAsync, loadDelay, fileKind, withTarget, data, list,
                 wrappers, unhandled, ops, written, writtenPlain>>

\* The accessor of the wrapper, toBlob: () => blobReady ? blob : undefined.
\* It reads the two variables of the closure and assigns nothing.
ToBlobCallsOriginal(w) == [w EXCEPT !.calls = @ + 1]
ToBlobLeaves(w) == w

\* a test calls stored.file.toBlob() on the wrapper i
CallToBlob(i) ==
  /\ NoDue
  /\ wrappers' = [wrappers EXCEPT ![i] = ToBlobLeaves(@)]
  /\ last' = Call("toBlob", "")
  /\ UNCHANGED <<others, now, variant, simulateAsync, loadDelay, fileKind, withTarget, data, list,
                 unhandled, ops, written, writtenPlain>>

----------------------------------------------------------------------------
(* The bulk cancel, clearBlobLoaderTimers.  core/index.ts and the tests      *)
(* import it from reactive-collection.ts, which neither defines nor exports *)
(* it: createDelayedBlobLoader drops the handle setTimeout returns, the     *)
(* module keeps no list of timers and never calls clearTimeout.             *)

\* what reactive-collection.ts exports, by name
ReactiveCollectionExports ==
  {"createReactiveRecord", "createReactiveList", "createMapWithReactiveCollections",
   "createMapWithSyncImages"}

\* the two ways a call of the imported name can end
ClearOps == {"clear", "clearThrew"}

\* clearBlobLoaderTimers(): the imported binding is undefined, and calling it
\* throws a TypeError
ClearOutcome ==
  IF "clearBlobLoaderTimers" \in ReactiveCollectionExports THEN "clear" ELSE "clearThrew"

\* no call of it made yet
NeverCleared == -1
NoClear == [pending |-> {}, first |-> NeverCleared]

\* the timers of the wrappers that have not run: what a bulk cancel is to cancel
PendingAtCall == {i \in 1..Len(wrappers) : wrappers[i].timer = "scheduled"}

\* the call reaches no timer: the queue and every wrapper are as before
ClearBlobLoaderTimers ==
  /\ NoDue
  /\ last' = Call(ClearOutcome, "")
  /\ cleared' = [pending |-> cleared.pending \cup PendingAtCall,
                 first |-> IF cleared.first = NeverCleared THEN Len(wrappers) ELSE cleared.first]
  /\ UNCHANGED <<others, now, variant, simulateAsync, loadDelay, fileKind, withTarget, data, list,
                 wrappers, unhandled, ops, written, writtenPlain>>

----------------------------------------------------------------------------
(* Wrapping on insertion: shared by $jazz.set (record) and $jazz.push (list) *)

\* value && ... : undefined, null and 0 are falsy
Truthy(v) == v.t \notin {"undefined", "null"} /\ ~(v.t = "prim" /\ v.ref = 0)
\* typeof value === 'object'  (true of null as well)
TypeofObject(v) == v.t \in {"object", "null"}
\* 'file' in value
FileIn(v) == v.fkind # "nofield"

\* simulateAsync && value && typeof value === 'object' && 'file' in value
ShouldWrapAlways(v) == Truthy(v) /\ TypeofObject(v) /\ FileIn(v)
ShouldWrap(v) == simulateAsync /\ Truthy(v) /\ TypeofObject(v) /\ FileIn(v)

\* the identity of the copy { ...value, file: <wrapper i> }
CopyRef(i) == 100 + i

\* { ...value, file: createDelayedBlobLoader(value.file, loadDelay) }, or value itself
StoredValue(v) ==
  IF ShouldWrap(v)
    THEN [v EXCEPT !.ref = CopyRef(Len(wrappers) + 1), !.fkind = "wrapper",
                   !.fw = Len(wrappers) + 1]
    ELSE v

WrappersAfterInSlot(v) ==
  IF ShouldWrap(v)
    THEN IF wrappers = <<>>
           THEN <<NewLoader(v.fkind, loadDelay)>>
           ELSE [wrappers EXCEPT ![Len(wrappers)] = NewLoader(v.fkind, loadDelay)]
    ELSE wrappers
WrappersAfter(v) ==
  IF ShouldWrap(v) THEN Append(wrappers, NewLoader(v.fkind, loadDelay)) ELSE wrappers

CanInsert(v) == ShouldWrap(v) => Len(wrappers) < MaxWrappers

----------------------------------------------------------------------------
(* createReactiveRecord *)

\* key in data  (a plain object: own properties and those of Object.prototype)
InDataDefined(k) == data[k].t \notin {"absent", "undefined"} \/ k \in InheritedKeys
InData(k) == data[k].t # "absent" \/ k \in InheritedKeys

\* data[key]
ReadData(k) ==
  IF data[k].t # "absent" THEN data[k]
  ELSE IF k \in InheritedKeys THEN ProtoFn
  ELSE Undefined

\* $jazz.has / $jazz.get of the record
RecordHas(k) == InData(k)
RecordGet(k) == ReadData(k)

\* Proxy get trap
ProxyGetPlain(prop) == ReadData(prop)
ProxyGet(prop) ==
  IF prop = "$isLoaded" THEN TrueVal
  ELSE IF prop = "$jazz" THEN JazzApi
  ELSE ReadData(prop)

\* Proxy set trap: typeof prop === 'string' && !prop.startsWith('$')
ProxySetStoresAll(prop) == TRUE
ProxySetStores(prop) == prop \notin DollarKeys

\* Proxy has trap
ProxyHas(prop) == prop \in MetaKeys \/ InData(prop)

\* Proxy ownKeys trap: Object.keys(target)
OwnKeys == {k \in Keys : data[k].t # "absent"}

\* Proxy getOwnPropertyDescriptor trap: the enumerable flag it reports
DescriptorEnumerableAll(prop) == TRUE
DescriptorEnumerable(prop) == prop \notin MetaKeys

\* Object.keys(record): the keys of the ownKeys trap whose descriptor, as the
\* getOwnPropertyDescriptor trap reports it, is enumerable
ObjectKeys == {k \in OwnKeys : DescriptorEnumerable(k)}

JazzSet(k, v) ==
  /\ variant = "record"
  /\ NoDue
  /\ ops < MaxOps
  /\ CanInsert(v)
  /\ data' = [data EXCEPT ![k] = StoredValue(v)]
  /\ wrappers' = WrappersAfter(v)
  /\ last' = Call("set", k)
  /\ ops' = ops + 1
  /\ written' = [written EXCEPT ![k] = v]
  /\ writtenPlain' = [writtenPlain EXCEPT ![k] = v]
  /\ UNCHANGED <<others, now, variant, simulateAsync, loadDelay, fileKind, withTarget, list, unhandled>>

\* delete data[key]
DeleteKey(d, k) == [d EXCEPT ![k] = Absent]

JazzDelete(k) ==
  /\ variant = "record"
  /\ NoDue
  /\ ops < MaxOps
  /\ data' = DeleteKey(data, k)
  /\ last' = Call("delete", k)
  /\ ops' = ops + 1
  /\ written' = [written EXCEPT ![k] = Absent]
  /\ writtenPlain' = [writtenPlain EXCEPT ![k] = Absent]
  /\ UNCHANGED <<others, now, variant, simulateAsync, loadDelay, fileKind, withTarget, list,
                 wrappers, unhandled>>

\* has: (key) => key in data ; get: (key) => data[key].  Neither assigns anything.
ReadLeaves(d, k) == d

JazzHas(k) ==
  /\ variant = "record"
  /\ NoDue
  /\ data' = ReadLeaves(data, k)
  /\ UNCHANGED <<others, now, variant, simulateAsync, loadDelay, fileKind, withTarget, list,
                 wrappers, unhandled, last, ops, written, writtenPlain>>

JazzGet(k) ==
  /\ variant = "record"
  /\ NoDue
  /\ data' = ReadLeaves(data, k)
  /\ UNCHANGED <<others, now, variant, simulateAsync, loadDelay, fileKind, withTarget, list,
                 wrappers, unhandled, last, ops, written, writtenPlain>>

\* record[prop] = value, through the Proxy set trap
ProxySet(prop, v) ==
  /\ variant = "record"
  /\ NoDue
  /\ ops < MaxOps
  /\ data' = IF ProxySetStores(prop) THEN [data EXCEPT ![prop] = v] ELSE data
  /\ last' = Call("assign", prop)
  /\ ops' = ops + 1
  /\ written' = IF prop \notin MetaKeys THEN [written EXCEPT ![prop] = v] ELSE written
  /\ writtenPlain' = IF prop \notin DollarKeys
                       THEN [writtenPlain EXCEPT ![prop] = v] ELSE writtenPlain
  /\ UNCHANGED <<others, now, variant, simulateAsync, loadDelay, fileKind, withTarget, list,
                 wrappers, unhandled>>

----------------------------------------------------------------------------
(* createReactiveList *)

\* Array.prototype.splice(index, count): where removal starts and how many go
SpliceStart(len, index) ==
  IF index < 0 THEN (IF len + index > 0 THEN len + index ELSE 0)
  ELSE (IF index < len THEN index ELSE len)

SpliceCount(len, index, count) ==
  LET start == SpliceStart(len, index)
      c == IF count > 0 THEN count ELSE 0
  IN IF c < len - start THEN c ELSE len - start

\* data.splice(index, count)
SpliceRemove(l, index, count) ==
  LET start == SpliceStart(Len(l), index)
      dc == SpliceCount(Len(l), index, count)
  IN SubSeq(l, 1, start) \o SubSeq(l, start + dc + 1, Len(l))

\* Object.defineProperty(listWithMeta, '$isLoaded' / '$jazz', { value, enumerable: false }):
\* the attributes left out default to false, so neither property is writable
ListMetaEnumerable(prop) == FALSE
ListMetaWritable(prop) == FALSE

\* the own named properties of the array returned by createReactiveList
ListMeta == [k \in Keys |->
               IF k = "$isLoaded" THEN TrueVal ELSE IF k = "$jazz" THEN JazzApi ELSE Absent]

\* the property name of an index
IndexName(i) == <<"0", "1", "2", "3", "4", "5", "6", "7">>[i + 1]

\* Object.keys(list): the own enumerable property names of the array
ListObjectKeys ==
  {IndexName(i - 1) : i \in 1..Len(list)}
    \cup {k \in Keys : data[k].t # "absent" /\ (k \in MetaKeys => ListMetaEnumerable(k))}

\* prop in list: the two defined properties are own properties of the array
ListHas(prop) ==
  data[prop].t # "absent" \/ prop \in {IndexName(i - 1) : i \in 1..Len(list)}
    \/ prop \in InheritedKeys

\* list[prop], for a property name that is not an index
ListGet(prop) == ReadData(prop)

\* list[prop] = value, for a property name that is not an index: an ordinary
\* assignment to an array.  Onto a non-writable own property it throws a
\* TypeError in strict code (every module is strict) and does nothing in sloppy
\* code; any other name becomes, or stays, an own enumerable property.
ListAssignThrows(prop, strict) == data[prop].t # "absent" /\ prop \in MetaKeys
                                    /\ ~ListMetaWritable(prop) /\ strict
ListAssignStores(prop) == ~(data[prop].t # "absent" /\ prop \in MetaKeys
                              /\ ~ListMetaWritable(prop))

ListAssign(prop, v, strict) ==
  /\ variant = "list"
  /\ NoDue
  /\ ops < MaxOps
  /\ data' = IF ListAssignStores(prop) THEN [data EXCEPT ![prop] = v] ELSE data
  /\ last' = Call(IF ListAssignThrows(prop, strict) THEN "assignThrew" ELSE "assign", prop)
  /\ ops' = ops + 1
  /\ UNCHANGED <<others, now, variant, simulateAsync, loadDelay, fileKind, withTarget, list,
                 wrappers, unhandled, written, writtenPlain>>

\* The set and delete of a list's $jazz are those of createMockJazzAPI, made
\* without a target: the call is recorded by the spy and nothing is stored.
ListJazzSet(k, v) ==
  /\ variant = "list"
  /\ NoDue
  /\ ops < MaxOps
  /\ last' = Call("set", k)
  /\ ops' = ops + 1
  /\ UNCHANGED <<others, now, variant, simulateAsync, loadDelay, fileKind, withTarget, data, list,
                 wrappers, unhandled, written, writtenPlain>>

ListJazzDelete(k) ==
  /\ variant = "list"
  /\ NoDue
  /\ ops < MaxOps
  /\ last' = Call("delete", k)
  /\ ops' = ops + 1
  /\ UNCHANGED <<others, now, variant, simulateAsync, loadDelay, fileKind, withTarget, data, list,
                 wrappers, unhandled, written, writtenPlain>>

\* data.push(x)
PushedFront(l, x) == <<x>> \o l
Pushed(l, x) == Append(l, x)

ListPush(v) ==
  /\ variant = "list"
  /\ NoDue
  /\ ops < MaxOps
  /\ Len(list) < MaxLen
  /\ CanInsert(v)
  /\ list' = Pushed(list, StoredValue(v))
  /\ wrappers' = WrappersAfter(v)
  /\ last' = Call("push", "")
  /\ ops' = ops + 1
  /\ UNCHANGED <<others, now, variant, simulateAsync, loadDelay, fileKind, withTarget, data,
                 unhandled, written, writtenPlain>>

\* splice: vi.fn((index, count) => { data.splice(index, count); }) ; the items a
\* caller passes after count are recorded by the spy and not used
ListSplice(index, count, items) ==
  /\ variant = "list"
  /\ NoDue
  /\ ops < MaxOps
  /\ list' = SpliceRemove(list, index, count)
  /\ last' = Call("splice", "")
  /\ ops' = ops + 1
  /\ UNCHANGED <<others, now, variant, simulateAsync, loadDelay, fileKind, withTarget, data,
                 wrappers, unhandled, written, writtenPlain>>

\* has and get of a list's $jazz, likewise without a target: false and undefined
ListJazzHas(k) == FALSE
ListJazzGet(k) == Undefined

ListJazzRead(k) ==
  /\ variant = "list"
  /\ NoDue
  /\ data' = ReadLeaves(data, k)
  /\ UNCHANGED <<others, now, variant, simulateAsync, loadDelay, fileKind, withTarget, list,
                 wrappers, unhandled, last, ops, written, writtenPlain>>

\* push and splice of a record's $jazz are those of createMockJazzAPI: empty bodies
RecordJazzListCall(m) ==
  /\ variant = "record"
  /\ NoDue
  /\ ops < MaxOps
  /\ last' = Call(m, "")
  /\ ops' = ops + 1
  /\ UNCHANGED <<others, now, variant, simulateAsync, loadDelay, fileKind, withTarget, data,
                 list, wrappers, unhandled, written, writtenPlain>>

----------------------------------------------------------------------------
(* The spies.  Every method of a $jazz object is a vi.fn(...) around its     *)
(* implementation: a call appends its argument list, all of the arguments    *)
(* passed, to the spy's mock.calls and then runs the implementation.         *)

Methods == {"set", "delete", "has", "get", "push", "splice"}
NoCalls == [m \in Methods |-> <<>>]

\* mock.calls.push(args)  (first: as a spy would that kept only two arguments of each call)
MockCallsDeclared(log, args) ==
  Append(log, SubSeq(args, 1, IF Len(args) < 2 THEN Len(args) ELSE 2))
MockCalls(log, args) == Append(log, args)

Spy(m, args, impl) ==
  /\ Len(made) < MaxCalls
  /\ impl
  /\ calls' = [calls EXCEPT ![m] = MockCalls(@, args)]
  /\ made' = Append(made, [m |-> m, args |-> args])

----------------------------------------------------------------------------
(* Two collections and the caller's array.  Each call of                     *)
(* createReactiveRecord evaluates `const data = {}`, each call of            *)
(* createReactiveList evaluates `const data = [...initialItems]`, and each   *)
(* builds its $jazz from new vi.fn spies: every collection has objects of    *)
(* its own.  Seen(mine, theirs) is what a holder of another object reads     *)
(* after mine was written: its own contents, unless both are one object.     *)

OwnStorageNone == FALSE
OwnStorage == TRUE

Seen(mine, theirs) == IF OwnStorage THEN theirs ELSE mine

\* an operation on the first collection
OnFirst(op) ==
  /\ op
  /\ peerData' = Seen(data', peerData)
  /\ peerList' = Seen(list', peerList)
  /\ initialItems' = Seen(list', initialItems)
  /\ peerCalls' = Seen(calls', peerCalls)

PeerOps == Len(peerCalls["set"]) + Len(peerCalls["delete"])
             + Len(peerCalls["push"]) + Len(peerCalls["splice"])

\* an operation on the second collection (made without options: no deferred
\* mode), given what it does to its data, its elements and its spies' logs
OnPeer(d, l, c) ==
  /\ NoDue
  /\ PeerOps < MaxPeerOps
  /\ peerData' = d /\ peerList' = l /\ peerCalls' = c
  /\ data' = Seen(d, data)
  /\ list' = Seen(l, list)
  /\ initialItems' = Seen(l, initialItems)
  /\ calls' = Seen(c, calls)
  /\ last' = NoCall
  /\ UNCHANGED <<others, now, variant, simulateAsync, loadDelay, fileKind, withTarget,
                 wrappers, unhandled, ops, written, writtenPlain, made>>

PeerSet(k, v) ==
  /\ variant = "record"
  /\ OnPeer([peerData EXCEPT ![k] = v], peerList,
            [peerCalls EXCEPT !["set"] = MockCalls(@, <<k, v>>)])

PeerDelete(k) ==
  /\ variant = "record"
  /\ OnPeer(DeleteKey(peerData, k), peerList,
            [peerCalls EXCEPT !["delete"] = MockCalls(@, <<k>>)])

PeerPush(v) ==
  /\ variant = "list"
  /\ Len(peerList) < MaxLen
  /\ OnPeer(peerData, Pushed(peerList, v),
            [peerCalls EXCEPT !["push"] = MockCalls(@, <<v>>)])

PeerSplice(index, count) ==
  /\ variant = "list"
  /\ OnPeer(peerData, SpliceRemove(peerList, index, count),
            [peerCalls EXCEPT !["splice"] = MockCalls(@, <<index, count>>)])

\* the caller changes the array it passed as initialItems
CallerPush(v) ==
  /\ variant = "list"
  /\ NoDue
  /\ Len(initialItems) < MaxLen
  /\ initialItems' = Pushed(initialItems, v)
  /\ list' = Seen(initialItems', list)
  /\ peerList' = Seen(initialItems', peerList)
  /\ last' = NoCall
  /\ UNCHANGED <<others, now, variant, simulateAsync, loadDelay, fileKind, withTarget, data,
                 wrappers, unhandled, ops, written, writtenPlain, calls, made,
                 peerData, peerCalls>>

----------------------------------------------------------------------------
(* createMockJazzAPI: the $jazz API over an optional target object *)

\* "api": the API by itself, data being the target it was given or not;
\* "comap": the object of createMockCoMap / createMockCoRecord, data being the
\* object, which the API gets as its target when options.trackMutations is set
ApiVariants == {"api", "comap", "account"}

\* const target = options.target ... if (target)
HasTargetAlways == TRUE
HasTarget == withTarget

ApiSet(k, v) ==
  /\ variant \in ApiVariants
  /\ ops < MaxOps
  /\ data' = IF HasTarget THEN [data EXCEPT ![k] = v] ELSE data
  /\ last' = Call("set", k)
  /\ ops' = ops + 1
  /\ written' = [written EXCEPT ![k] = v]
  /\ writtenPlain' = [writtenPlain EXCEPT ![k] = v]
  /\ UNCHANGED <<others, now, variant, simulateAsync, loadDelay, fileKind, withTarget, list,
                 wrappers, unhandled>>

ApiDelete(k) ==
  /\ variant \in ApiVariants
  /\ ops < MaxOps
  /\ data' = IF HasTarget THEN DeleteKey(data, k) ELSE data
  /\ last' = Call("delete", k)
  /\ ops' = ops + 1
  /\ written' = [written EXCEPT ![k] = Absent]
  /\ writtenPlain' = [writtenPlain EXCEPT ![k] = Absent]
  /\ UNCHANGED <<others, now, variant, simulateAsync, loadDelay, fileKind, withTarget, list,
                 wrappers, unhandled>>

\* has: target ? key in target : false
ApiHas(k) == IF HasTarget THEN InData(k) ELSE FALSE
\* get: target ? target[key] : undefined
ApiGet(k) == IF HasTarget THEN ReadData(k) ELSE Undefined

ApiRead(k) ==
  /\ variant \in ApiVariants
  /\ data' = ReadLeaves(data, k)
  /\ UNCHANGED <<others, now, variant, simulateAsync, loadDelay, fileKind, withTarget, list,
                 wrappers, unhandled, last, ops, written, writtenPlain>>

----------------------------------------------------------------------------
(* setupJazzMocks (vitest/setup.ts) and the test run around it.  The setup   *)
(* file does `await setupJazzMocks(options)`; the runner starts the tests    *)
(* once the setup file has run to its end, and runs the registered           *)
(* beforeEach callbacks before each test.                                    *)

\* The promise of the call at its first suspension: an async function that
\* awaits the import is pending there (a function that returned with the
\* import left to a .then would be done).
PromiseLeftBehind == "resolved"
PromiseAtAwait == "pending"

\* setupJazzMocks(options), up to `await import('../react/hooks.js')`
SetupJazzMocks ==
  /\ setup.promise = "none"
  /\ setup' = [setup EXCEPT !.import = "loading", !.promise = PromiseAtAwait]
  /\ UNCHANGED <<collection, calls, made, peers, world, outside>>

\* the import has loaded: the rest of the function.  Without a global
\* beforeEach it warns and returns; otherwise it registers the callback.
ImportLoaded ==
  /\ setup.import = "loading"
  /\ setup' = [setup EXCEPT !.import = "done", !.promise = "resolved",
                             !.registered = setup.hasBeforeEach,
                             !.warned = ~setup.hasBeforeEach]
  /\ UNCHANGED <<collection, calls, made, peers, world, outside>>

\* the setup file is past its `await`: the runner goes on to the tests
TestsBegin ==
  /\ world.phase = "setupFile"
  /\ setup.promise = "resolved"
  /\ world' = [world EXCEPT !.phase = "betweenTests"]
  /\ UNCHANGED <<collection, calls, made, peers, setup, outside>>

\* resetIdCounter()
ResetIdCounter(w) == [w EXCEPT !.idCounter = 0]
\* fileStreamRegistry.clear()
RegistryClear(w) == [w EXCEPT !.registry = {}]
\* resetJazzReactMocks()
ResetJazzReactMocks(w) == [w EXCEPT !.reactMocks = "default"]

\* the callback given to beforeEach
CleanupCallback(w) ==
  LET w1 == IF setup.resetIds THEN ResetIdCounter(w) ELSE w
      w2 == IF setup.clearFileRegistry THEN RegistryClear(w1) ELSE w1
  IN IF setup.resetReactMocks THEN ResetJazzReactMocks(w2) ELSE w2

\* a test starts: the runner runs the beforeEach callbacks registered by then
BeforeEachRun ==
  /\ world.phase = "betweenTests"
  /\ world.tests < MaxTests
  /\ world' = [(IF setup.registered THEN CleanupCallback(world) ELSE world)
                  EXCEPT !.phase = "inTest", !.tests = world.tests + 1]
  /\ UNCHANGED <<collection, calls, made, peers, setup, outside>>

\* what a test does to the state the callback resets
GenerateSequentialId ==
  /\ world.phase = "inTest"
  /\ world.idCounter < MaxIds
  /\ world' = [world EXCEPT !.idCounter = @ + 1]
  /\ UNCHANGED <<collection, calls, made, peers, setup, outside>>

RegistryRegister(id) ==
  /\ world.phase = "inTest"
  /\ world' = [world EXCEPT !.registry = @ \cup {id}]
  /\ UNCHANGED <<collection, calls, made, peers, setup, outside>>

MockUseCoState ==
  /\ world.phase = "inTest"
  /\ world' = [world EXCEPT !.reactMocks = "custom"]
  /\ UNCHANGED <<collection, calls, made, peers, setup, outside>>

TestEnds ==
  /\ world.phase = "inTest"
  /\ world' = [world EXCEPT !.phase = "betweenTests"]
  /\ UNCHANGED <<collection, calls, made, peers, setup, outside>>

----------------------------------------------------------------------------
(* JazzTestContext (fluent context, src/unnamed/part_004) over its two      *)
(* backends (src/src/backends/jazz.ts).  The state is that of one context   *)
(* after `await JazzTestContext.create(options)`: the backend is set up and *)
(* the primary account made.  An account is its id; the primary account is  *)
(* the first one.  What jazz-tools itself does (a real Group, a real sync)  *)
(* is outside the sources; of jazz-tools only the calls the backend makes   *)
(* to it are modelled, each resolving some time after it was made.          *)

AccountIds == 1..MaxAccounts
Primary == 1
Roles == {"reader", "writer", "admin"}
\* roles.get(id) of an id the Map does not hold: undefined
NoRole == "undefined"

\* the object createJazzBackend returns, by its keys; createMockBackend's
JazzBackendMethods ==
  {"setup", "createPrimaryAccount", "createAccount", "linkAccounts", "setActiveAccount",
   "createGroup"}
MockBackendMethods == JazzBackendMethods \cup {"waitForSync"}
BackendMethods(type) == IF type = "jazz" THEN JazzBackendMethods ELSE MockBackendMethods

\* async waitForSync() { await this.backend.waitForSync() }: calling a property
\* the backend does not have throws a TypeError inside the async function, so
\* the promise it returned is rejected
WaitForSyncOutcome(type) ==
  IF "waitForSync" \in BackendMethods(type) THEN "resolved" ELSE "rejected"

WaitForSync ==
  /\ sync' = WaitForSyncOutcome(backendType)
  /\ UNCHANGED <<backendType, accounts, creating, links, groups>>

\* one createAccount call: pc is where it is suspended, acct the account it
\* made (0: none yet), idx the position of its `for (const existing of accounts)`,
\* seen the length of `accounts` when that loop began
NewCall(pc, acct) == [pc |-> pc, acct |-> acct, idx |-> 0, seen |-> 0]

\* the id of the next account made: ids are unique, handed out in order
NextId == 2 + Cardinality({t \in 1..Len(creating) : creating[t].acct # 0})

\* ctx.createAccount(name) on the mock backend: createAccount has no await, the
\* account exists when the call returns
MockCreateAccount ==
  /\ backendType = "mock"
  /\ Len(creating) + 1 < MaxAccounts
  /\ creating' = Append(creating, NewCall("done", NextId))
  /\ UNCHANGED <<backendType, accounts, links, sync, groups>>

\* ctx.createAccount(name) on the jazz backend, up to `await loadJazzTools()`
JazzCreateAccount ==
  /\ backendType = "jazz"
  /\ Len(creating) + 1 < MaxAccounts
  /\ creating' = Append(creating, NewCall("loading", 0))
  /\ UNCHANGED <<backendType, accounts, links, sync, groups>>

\* the modules are there (create() made the primary account with the same
\* AccountSchema, so it is set): up to `await jazzTesting.createJazzTestAccount(...)`
JazzToolsLoaded(t) ==
  /\ creating[t].pc = "loading"
  /\ creating' = [creating EXCEPT ![t].pc = "creating"]
  /\ UNCHANGED <<backendType, accounts, links, sync, groups>>

\* Where an array iterator stops: it compares its index with the length the
\* array has when next() is called, so it visits elements pushed meanwhile.
LoopEndAtStart(c) == c.seen
LoopEnd(c) == Len(accounts)

\* One turn of `for (const existing of accounts)` of call t, which stands at
\* c: either the loop body up to `await jazzTesting.linkAccounts(existing.raw, raw)`,
\* or the end of the loop, accounts.push(account) and the return.
LoopTurn(t, c) ==
  IF c.idx < LoopEnd(c)
    THEN /\ creating' = [creating EXCEPT ![t] = [c EXCEPT !.pc = "linking"]]
         /\ accounts' = accounts
    ELSE /\ creating' = [creating EXCEPT ![t] = [c EXCEPT !.pc = "done"]]
         /\ accounts' = Append(accounts, c.acct)

\* the account is made: wrapAccount, and the loop begins
JazzAccountMade(t) ==
  /\ creating[t].pc = "creating"
  /\ LoopTurn(t, [creating[t] EXCEPT !.acct = NextId, !.seen = Len(accounts)])
  /\ UNCHANGED <<backendType, links, sync, groups>>

\* jazzTesting.linkAccounts(a, b) has linked the two
Linked(ls, a, b) == ls \cup {{a, b}}

\* the link is made: the next turn of the loop
JazzLinked(t) ==
  /\ creating[t].pc = "linking"
  /\ links' = Linked(links, accounts[creating[t].idx + 1], creating[t].acct)
  /\ LoopTurn(t, [creating[t] EXCEPT !.idx = @ + 1])
  /\ UNCHANGED <<backendType, sync, groups>>

\* the accounts a test holds: the primary one and those its createAccount
\* calls have returned
Held == {Primary} \cup {creating[t].acct : t \in {u \in 1..Len(creating) : creating[u].pc = "done"}}

----------------------------------------------------------------------------
(* createMockGroup (core/account, in src/src/backends/jazz.ts:617-638) and  *)
(* wrapGroup of the mock backend (jazz.ts:190-209).  A member { id } is its *)
(* id.                                                                      *)

\* options.members, when the caller gave none
NoMembers == <<-1>>
\* options.owner ?? { id: 'test-owner' }
TestOwner == 0

\* const owner = options.owner ?? { id: 'test-owner' };
\* const members = options.members ?? [owner];
\* `closure` is that array: the caller's own array when one was given.
\* `members` is the property of the returned group: [...members], a copy made now.
\* `given` is what the caller's array held when it was passed (history).
CreateMockGroup(owner, optMembers) ==
  LET members == IF optMembers = NoMembers THEN <<owner>> ELSE optMembers
  IN [owner |-> owner, given |-> optMembers, closure |-> members, members |-> members,
      wrapped |-> FALSE, roles |-> [a \in AccountIds |-> NoRole], log |-> <<>>]

\* addMember: vi.fn((member) => { members.push(member) })
GroupAddMember(g, m) == [g EXCEPT !.closure = Append(@, m)]

\* members.findIndex((m) => m.id === memberId), from 1; 0 for -1
FindIndex(ms, id) ==
  IF \E i \in 1..Len(ms) : ms[i] = id
    THEN CHOOSE i \in 1..Len(ms) : ms[i] = id /\ \A j \in 1..(i - 1) : ms[j] # id
    ELSE 0

\* removeMember: if (index !== -1) members.splice(index, 1)
GroupRemoveMember(g, id) ==
  LET index == FindIndex(g.closure, id)
  IN IF index # 0
       THEN [g EXCEPT !.closure = SubSeq(@, 1, index - 1) \o SubSeq(@, index + 1, Len(@))]
       ELSE g

\* wrapGroup(raw): const roles = new Map()
WrapGroup(raw) == [raw EXCEPT !.wrapped = TRUE]

\* roles.set(account.id, role), roles.delete(account.id)
RolesSetFirst(roles, id, role) == IF roles[id] = NoRole THEN [roles EXCEPT ![id] = role] ELSE roles
RolesSet(roles, id, role) == [roles EXCEPT ![id] = role]
RolesDelete(roles, id) == [roles EXCEPT ![id] = NoRole]

\* TestGroup.addMember(account, role): raw.addMember({ id }); roles.set(id, role)
TestGroupAddMember(g, a, role) ==
  [GroupAddMember(g, a) EXCEPT !.roles = RolesSet(@, a, role),
                               !.log = Append(@, [op |-> "add", acct |-> a, role |-> role])]

\* TestGroup.removeMember(account): raw.removeMember(id); roles.delete(id)
TestGroupRemoveMember(g, a) ==
  [GroupRemoveMember(g, a) EXCEPT !.roles = RolesDelete(@, a),
                                  !.log = Append(@, [op |-> "remove", acct |-> a, role |-> NoRole])]

\* getRoleOf(accountId): roles.get(accountId)
GetRoleOf(g, a) == g.roles[a]

\* ctx.canRead / canWrite / canAdmin (part_004:204-223)
CanRead(g, a) == GetRoleOf(g, a) # NoRole
CanWrite(g, a) == GetRoleOf(g, a) \in {"writer", "admin"}
CanAdmin(g, a) == GetRoleOf(g, a) = "admin"

\* The role createGroup gives the owner
OwnerRoleWriter == "writer"
OwnerRole == "admin"

\* createMockBackend().createGroup(owner): the group over a fresh one-member
\* array, wrapped, and group.addMember(owner, 'admin')
MockBackendCreateGroup(owner) ==
  TestGroupAddMember(WrapGroup(CreateMockGroup(owner, <<owner>>)), owner, OwnerRole)

\* the number of addMember / removeMember calls the test itself has made: the
\* first call on each group is createGroup's
RECURSIVE LogLength(_)
LogLength(gs) == IF gs = <<>> THEN 0 ELSE Len(Head(gs).log) + LogLength(Tail(gs))
MemberOps ==
  LogLength(groups) - Cardinality({g \in 1..Len(groups) : groups[g].wrapped})

\* ctx.createGroup(): this.backend.createGroup(this.account)
CreateGroup ==
  /\ backendType = "mock"
  /\ Len(groups) < MaxGroups
  /\ groups' = Append(groups, MockBackendCreateGroup(Primary))
  /\ UNCHANGED <<backendType, accounts, creating, links, sync>>

\* ctx.addMember(group, account, role): group.addMember(account, role)
AddMember(g, a, role) ==
  /\ backendType = "mock"
  /\ MemberOps < MaxMemberOps
  /\ groups' = [groups EXCEPT ![g] = TestGroupAddMember(@, a, role)]
  /\ UNCHANGED <<backendType, accounts, creating, links, sync>>

\* ctx.removeMember(group, account): group.removeMember(account)
RemoveMember(g, a) ==
  /\ backendType = "mock"
  /\ MemberOps < MaxMemberOps
  /\ groups' = [groups EXCEPT ![g] = TestGroupRemoveMember(@, a)]
  /\ UNCHANGED <<backendType, accounts, creating, links, sync>>

\* A test that uses the factory itself: createMockGroup({ members }) or
\* createMockGroup(), then group.addMember(member), group.removeMember(id).
MakeMockGroup(optMembers) ==
  /\ Len(groups) < MaxGroups
  /\ groups' = Append(groups, CreateMockGroup(TestOwner, optMembers))
  /\ UNCHANGED <<backendType, accounts, creating, links, sync>>

MockGroupAddMember(g, m) ==
  /\ MemberOps < MaxMemberOps
  /\ groups' = [groups EXCEPT ![g] =
                  [GroupAddMember(@, m) EXCEPT
                     !.log = Append(@, [op |-> "add", acct |-> m, role |-> NoRole])]]
  /\ UNCHANGED <<backendType, accounts, creating, links, sync>>

MockGroupRemoveMember(g, id) ==
  /\ MemberOps < MaxMemberOps
  /\ groups' = [groups EXCEPT ![g] =
                  [GroupRemoveMember(@, id) EXCEPT
                     !.log = Append(@, [op |-> "remove", acct |-> id, role |-> NoRole])]]
  /\ UNCHANGED <<backendType, accounts, creating, links, sync>>

\* the array the caller passed as options.members, as it is now: the factory
\* kept the array itself, not a copy
CallerMembers(g) == g.closure

----------------------------------------------------------------------------
(* createMockAccount (core/account, in src/src/backends/jazz.ts:533-569).   *)
(* Its root gets a $jazz made by createMockJazzAPI, whose target is         *)
(* options.trackMutations ? rootData : undefined, where rootData is         *)
(* options.root: for the account variant `data` is that object, the         *)
(* caller's, and `withTarget` is options.trackMutations.                    *)

NoAccount == [made |-> FALSE]

\* const root = { ...rootData, $isLoaded: true, $jazz: createMockJazzAPI(...) }
AccountRoot(rootData) == [rootData EXCEPT !["$isLoaded"] = TrueVal, !["$jazz"] = JazzApi]

\* createMockAccount({ root: rootData, trackMutations }); `given` is what the
\* caller's object held when it was passed (history)
CreateMockAccount(rootData) ==
  [made |-> TRUE, given |-> rootData, root |-> AccountRoot(rootData)]

\* account.root[k]: a plain object, so own and inherited properties
AccountRootGet(k) ==
  IF account.root[k].t # "absent" THEN account.root[k]
  ELSE IF k \in InheritedKeys THEN ProtoFn
  ELSE Undefined

----------------------------------------------------------------------------
(* The React hook mocks (src/src/react/hooks.ts): the module's own four      *)
(* implementations, and those of each createIsolatedMockContext().  An       *)
(* implementation is modelled by what it returns; `hooks` holds one entry    *)
(* per set of implementations, the module's first.                           *)

HookNames == {"usePasskeyAuth", "useCoState", "useAccount", "useIsAuthenticated"}

\* { state: 'loading', logIn }, null, { logOut }, false
DefaultImpls ==
  [usePasskeyAuth |-> "loading", useCoState |-> "null", useAccount |-> "logOutOnly",
   useIsAuthenticated |-> "false"]

\* the module-level `let mock...Impl`, and the `let ...Impl` of one
\* createIsolatedMockContext(); `configured`: the number of calls made on it
\* that configure or reset (history)
FreshImpls == [impl |-> DefaultImpls, configured |-> 0]
ModuleHooks == <<FreshImpls>>
Module == 1

\* The variables a function of context c assigns: those of its own closure
\* (the module's for the exported functions).
StoreOfModule(c) == Module
StoreOf(c) == c

\* createIsolatedMockContext()
CreateIsolatedMockContext ==
  /\ Len(hooks) < 1 + MaxContexts
  /\ hooks' = Append(hooks, FreshImpls)

RECURSIVE Configured(_)
Configured(hs) == IF hs = <<>> THEN 0 ELSE Head(hs).configured + Configured(Tail(hs))

\* mockUsePasskeyAuth / mockUseCoState / mockUseAccount / mockUseIsAuthenticated
\* of context c (c = Module: the exported functions): the implementation is
\* replaced by one that returns what was given
ConfigureHook(c, hook, value) ==
  /\ Configured(hooks) < MaxHookOps
  /\ hooks' = [[hooks EXCEPT ![StoreOf(c)].impl[hook] = value]
                  EXCEPT ![c].configured = @ + 1]

\* context.reset(); for the module, resetJazzReactMocks()
ResetHooks(c) ==
  /\ Configured(hooks) < MaxHookOps
  /\ hooks' = [[hooks EXCEPT ![StoreOf(c)].impl = DefaultImpls]
                  EXCEPT ![c].configured = @ + 1]

\* context.getImplementations()[hook](), getMockImplementations()[hook]():
\* each calls the implementation current at the time of the call
HookReturns(c, hook) == hooks[c].impl[hook]

----------------------------------------------------------------------------
(* Specifications *)

EmptyObject == [k \in Keys |-> Absent]

\* before setupJazzMocks(options) is called; hasBeforeEach: Vitest globals are on
NotSetUp(ids, files, react, hasBeforeEach) ==
  [promise |-> "none", import |-> "none", hasBeforeEach |-> hasBeforeEach,
   resetIds |-> ids, clearFileRegistry |-> files, resetReactMocks |-> react,
   registered |-> FALSE, warned |-> FALSE]

\* let idCounter = 0; an empty registry; the default hook implementations
FreshWorld ==
  [idCounter |-> 0, registry |-> {}, reactMocks |-> "default", phase |-> "setupFile",
   tests |-> 0]

\* no test context, no group, no account and no isolated mock context made
OutsideInit ==
  /\ backendType = "mock"
  /\ accounts = <<>>
  /\ creating = <<>>
  /\ links = {}
  /\ sync = "none"
  /\ groups = <<>>
  /\ account = NoAccount
  /\ hooks = ModuleHooks
  /\ cleared = NoClear

\* no call made yet; the list was built from the caller's array, and so was
\* the second collection, with the same arguments
AuxInit ==
  /\ calls = NoCalls
  /\ made = <<>>
  /\ initialItems = list
  /\ peerData = data
  /\ peerList = list
  /\ peerCalls = NoCalls
  /\ setup = NotSetUp(TRUE, TRUE, TRUE, TRUE)
  /\ world = FreshWorld
  /\ OutsideInit

\* Spec: the delayed blob loaders and their timers, on one ordinary key.
TimingKeys == {"a"}
TimingValues == {Prim1, FileObj(fileKind)}
SpliceItems == {<<>>, <<FileObj(fileKind)>>, <<Prim1, FileObj(fileKind)>>}
SpliceCounts == {0, 1, 2}

Init ==
  /\ now = 0
  /\ variant \in {"record", "list"}
  /\ simulateAsync \in BOOLEAN
  /\ loadDelay \in (IF simulateAsync THEN {1, MaxDelay} ELSE {MaxDelay})
  /\ fileKind \in (IF simulateAsync THEN Kinds ELSE {"blob"})
  /\ withTarget = FALSE
  /\ data = (IF variant = "list" THEN ListMeta ELSE EmptyObject)
  /\ list \in (IF variant = "list" THEN {<<>>, <<Prim1>>} ELSE {<<>>})
  /\ wrappers = <<>>
  /\ unhandled = {}
  /\ others = <<>>
  /\ last = NoCall
  /\ ops = 0
  /\ written = data
  /\ writtenPlain = data
  /\ AuxInit

Next ==
  \/ Tick /\ UNCHANGED aux
  \/ \E i \in 1..Len(wrappers) : TimerFire(i) /\ UNCHANGED aux
  \/ \E i \in 1..Len(wrappers) : AwaitResume(i) /\ UNCHANGED aux
  \/ \E k \in TimingKeys, v \in TimingValues : JazzSet(k, v) /\ UNCHANGED aux
  \/ \E k \in TimingKeys : JazzDelete(k) /\ UNCHANGED aux
  \/ \E k \in TimingKeys : JazzHas(k) /\ UNCHANGED aux
  \/ \E k \in TimingKeys : JazzGet(k) /\ UNCHANGED aux
  \/ \E k \in TimingKeys, v \in AssignValues : ProxySet(k, v) /\ UNCHANGED aux
  \/ \E v \in TimingValues : ListPush(v) /\ UNCHANGED aux
  \/ \E index \in -1..MaxLen, count \in SpliceCounts, items \in SpliceItems :
       ListSplice(index, count, items) /\ UNCHANGED aux

Spec == Init /\ [][Next]_vars

\* SpecKeys: every kind of key and value, with the clock standing at the moment
\* of the calls (no timer runs).
InitKeys ==
  /\ now = 0
  /\ variant \in {"record", "list", "api"}
  /\ simulateAsync \in (IF variant = "api" THEN {FALSE} ELSE BOOLEAN)
  /\ loadDelay = MaxDelay
  /\ fileKind = "blob"
  /\ withTarget \in (IF variant = "api" THEN BOOLEAN ELSE {FALSE})
  /\ data \in (IF variant = "api" /\ withTarget
                 THEN {EmptyObject, [EmptyObject EXCEPT !["a"] = Prim1]}
                 ELSE IF variant = "list" THEN {ListMeta} ELSE {EmptyObject})
  /\ list \in (IF variant = "list" THEN {<<>>, <<Prim1>>} ELSE {<<>>})
  /\ wrappers = <<>>
  /\ unhandled = {}
  /\ others = <<>>
  /\ last = NoCall
  /\ ops = 0
  /\ written = data
  /\ writtenPlain = data
  /\ AuxInit

NextKeys ==
  \/ \E k \in Keys, v \in Values : JazzSet(k, v) /\ UNCHANGED aux
  \/ \E k \in Keys : JazzDelete(k) /\ UNCHANGED aux
  \/ \E k \in Keys : JazzHas(k) /\ UNCHANGED aux
  \/ \E k \in Keys : JazzGet(k) /\ UNCHANGED aux
  \/ \E k \in Keys, v \in AssignValues : ProxySet(k, v) /\ UNCHANGED aux
  \/ \E v \in Values : ListPush(v) /\ UNCHANGED aux
  \/ \E index \in -1..MaxLen, count \in SpliceCounts : ListSplice(index, count, <<>>) /\ UNCHANGED aux
  \/ \E k \in Keys, v \in AssignValues, strict \in BOOLEAN : ListAssign(k, v, strict) /\ UNCHANGED aux
  \/ \E k \in MetaKeys, v \in AssignValues : ListJazzSet(k, v) /\ UNCHANGED aux
  \/ \E k \in MetaKeys : ListJazzDelete(k) /\ UNCHANGED aux
  \/ \E k \in Keys, v \in Values : ApiSet(k, v) /\ UNCHANGED aux
  \/ \E k \in Keys : ApiDelete(k) /\ UNCHANGED aux
  \/ \E k \in Keys : ApiRead(k) /\ UNCHANGED aux

SpecKeys == InitKeys /\ [][NextKeys]_vars

\* SpecTimers: a record in deferred mode next to code that schedules timers of
\* its own, and the bulk cancel called at any moment.
\* one kind of toBlob for each way the timer callback can go: to its end, into
\* an exception, into an await, past a missing function
TimerKinds == {"blob", "throws", "pBlob", "absent"}

InitTimers ==
  /\ now = 0
  /\ variant = "record"
  /\ simulateAsync = TRUE
  /\ loadDelay \in {1, MaxDelay}
  /\ fileKind \in TimerKinds
  /\ withTarget = FALSE
  /\ data = EmptyObject
  /\ list = <<>>
  /\ wrappers = <<>>
  /\ unhandled = {}
  /\ others = <<>>
  /\ last = NoCall
  /\ ops = 0
  /\ written = data
  /\ writtenPlain = data
  /\ AuxInit

NextTimers ==
  \/ Tick /\ UNCHANGED aux
  \/ \E i \in 1..Len(wrappers) : TimerFire(i) /\ UNCHANGED aux
  \/ \E i \in 1..Len(wrappers) : AwaitResume(i) /\ UNCHANGED aux
  \/ \E j \in 1..Len(others) : OtherFire(j) /\ UNCHANGED aux
  \/ \E d \in {1, MaxDelay} : SetTimeout(d) /\ UNCHANGED aux
  \/ ClearBlobLoaderTimers /\ UNCHANGED auxOfClear
  \/ \E k \in TimingKeys : JazzSet(k, FileObj(fileKind)) /\ UNCHANGED aux

SpecTimers == InitTimers /\ [][NextTimers]_vars

\* SpecCalls: every $jazz method of a record and of a list called through its
\* spy, with the clock standing.
CallKeys == {"a", "$jazz"}
CallValues == {Prim1, FileObj(fileKind)}
CallItems == {<<>>, <<FileObj(fileKind)>>}

InitCalls ==
  /\ now = 0
  /\ variant \in {"record", "list"}
  /\ simulateAsync \in BOOLEAN
  /\ loadDelay = MaxDelay
  /\ fileKind = "blob"
  /\ withTarget = FALSE
  /\ data = (IF variant = "list" THEN ListMeta ELSE EmptyObject)
  /\ list \in (IF variant = "list" THEN {<<>>, <<Prim1>>} ELSE {<<>>})
  /\ wrappers = <<>>
  /\ unhandled = {}
  /\ others = <<>>
  /\ last = NoCall
  /\ ops = 0
  /\ written = data
  /\ writtenPlain = data
  /\ AuxInit

NextCalls ==
  \/ \E k \in CallKeys, v \in CallValues : Spy("set", <<k, v>>, JazzSet(k, v)) /\ UNCHANGED <<peers, setup, world, outside>>
  \/ \E k \in CallKeys : Spy("delete", <<k>>, JazzDelete(k)) /\ UNCHANGED <<peers, setup, world, outside>>
  \/ \E k \in CallKeys : Spy("has", <<k>>, JazzHas(k)) /\ UNCHANGED <<peers, setup, world, outside>>
  \/ \E k \in CallKeys : Spy("get", <<k>>, JazzGet(k)) /\ UNCHANGED <<peers, setup, world, outside>>
  \/ \E v \in CallValues : Spy("push", <<v>>, RecordJazzListCall("push")) /\ UNCHANGED <<peers, setup, world, outside>>
  \/ \E index \in {0, 1}, count \in {0, 1}, items \in CallItems :
       Spy("splice", <<index, count>> \o items, RecordJazzListCall("splice")) /\ UNCHANGED <<peers, setup, world, outside>>
  \/ \E k \in CallKeys, v \in CallValues : Spy("set", <<k, v>>, ListJazzSet(k, v)) /\ UNCHANGED <<peers, setup, world, outside>>
  \/ \E k \in CallKeys : Spy("delete", <<k>>, ListJazzDelete(k)) /\ UNCHANGED <<peers, setup, world, outside>>
  \/ \E k \in CallKeys : Spy("has", <<k>>, ListJazzRead(k)) /\ UNCHANGED <<peers, setup, world, outside>>
  \/ \E k \in CallKeys : Spy("get", <<k>>, ListJazzRead(k)) /\ UNCHANGED <<peers, setup, world, outside>>
  \/ \E v \in CallValues : Spy("push", <<v>>, ListPush(v)) /\ UNCHANGED <<peers, setup, world, outside>>
  \/ \E index \in {0, 1}, count \in {0, 1}, items \in CallItems :
       Spy("splice", <<index, count>> \o items, ListSplice(index, count, items)) /\ UNCHANGED <<peers, setup, world, outside>>

SpecCalls == InitCalls /\ [][NextCalls]_vars

\* SpecShared: two collections of one kind, made with the same arguments, and
\* the caller's array, each operated on in any interleaving.
SharedValues == {Prim1, PlainObj}

InitShared ==
  /\ now = 0
  /\ variant \in {"record", "list"}
  /\ simulateAsync = FALSE
  /\ loadDelay = MaxDelay
  /\ fileKind = "blob"
  /\ withTarget = FALSE
  /\ data = (IF variant = "list" THEN ListMeta ELSE EmptyObject)
  /\ list \in (IF variant = "list" THEN {<<>>, <<Prim1>>} ELSE {<<>>})
  /\ wrappers = <<>>
  /\ unhandled = {}
  /\ others = <<>>
  /\ last = NoCall
  /\ ops = 0
  /\ written = data
  /\ writtenPlain = data
  /\ AuxInit

NextShared ==
  \/ \E k \in TimingKeys, v \in SharedValues : OnFirst(Spy("set", <<k, v>>, JazzSet(k, v))) /\ UNCHANGED <<setup, world, outside>>
  \/ \E k \in TimingKeys : OnFirst(Spy("delete", <<k>>, JazzDelete(k))) /\ UNCHANGED <<setup, world, outside>>
  \/ \E k \in TimingKeys, v \in SharedValues :
       OnFirst(ProxySet(k, v) /\ UNCHANGED <<calls, made>>) /\ UNCHANGED <<setup, world, outside>>
  \/ \E v \in SharedValues : OnFirst(Spy("push", <<v>>, ListPush(v))) /\ UNCHANGED <<setup, world, outside>>
  \/ \E index \in {0}, count \in {1} :
       OnFirst(Spy("splice", <<index, count>>, ListSplice(index, count, <<>>))) /\ UNCHANGED <<setup, world, outside>>
  \/ \E k \in TimingKeys, v \in SharedValues : PeerSet(k, v) /\ UNCHANGED <<setup, world, outside>>
  \/ \E k \in TimingKeys : PeerDelete(k) /\ UNCHANGED <<setup, world, outside>>
  \/ \E v \in SharedValues : PeerPush(v) /\ UNCHANGED <<setup, world, outside>>
  \/ \E index \in {0}, count \in {1} : PeerSplice(index, count) /\ UNCHANGED <<setup, world, outside>>
  \/ \E v \in SharedValues : CallerPush(v) /\ UNCHANGED <<setup, world, outside>>

SpecShared == InitShared /\ [][NextShared]_vars

\* SpecCoMap: the object of createMockCoMap / createMockCoRecord, with and
\* without trackMutations, and the calls of its $jazz.
\* target = { ...data }; target.$isLoaded = true; target.$jazz = $jazz
CoMapObject(d) == [d EXCEPT !["$isLoaded"] = TrueVal, !["$jazz"] = JazzApi]

InitCoMap ==
  /\ now = 0
  /\ variant = "comap"
  /\ simulateAsync = FALSE
  /\ loadDelay = MaxDelay
  /\ fileKind = "blob"
  /\ withTarget \in BOOLEAN
  /\ data \in {CoMapObject(EmptyObject), CoMapObject([EmptyObject EXCEPT !["a"] = Prim1])}
  /\ list = <<>>
  /\ wrappers = <<>>
  /\ unhandled = {}
  /\ others = <<>>
  /\ last = NoCall
  /\ ops = 0
  /\ written = data
  /\ writtenPlain = data
  /\ AuxInit

NextCoMap ==
  \/ \E k \in Keys, v \in Values : ApiSet(k, v) /\ UNCHANGED aux
  \/ \E k \in Keys : ApiDelete(k) /\ UNCHANGED aux
  \/ \E k \in Keys : ApiRead(k) /\ UNCHANGED aux

SpecCoMap == InitCoMap /\ [][NextCoMap]_vars

\* SpecSetup: a setup file that awaits setupJazzMocks(options), for every
\* choice of options, with and without Vitest globals, and the tests after it.
InitSetup ==
  /\ now = 0
  /\ variant = "none"
  /\ simulateAsync = FALSE
  /\ loadDelay = MaxDelay
  /\ fileKind = "blob"
  /\ withTarget = FALSE
  /\ data = EmptyObject
  /\ list = <<>>
  /\ wrappers = <<>>
  /\ unhandled = {}
  /\ others = <<>>
  /\ last = NoCall
  /\ ops = 0
  /\ written = data
  /\ writtenPlain = data
  /\ calls = NoCalls
  /\ made = <<>>
  /\ initialItems = list
  /\ peerData = data
  /\ peerList = list
  /\ peerCalls = NoCalls
  /\ setup \in {NotSetUp(ids, files, react, hasBeforeEach) :
                  ids \in BOOLEAN, files \in BOOLEAN, react \in BOOLEAN,
                  hasBeforeEach \in BOOLEAN}
  /\ world = FreshWorld
  /\ OutsideInit

NextSetup ==
  \/ SetupJazzMocks
  \/ ImportLoaded
  \/ TestsBegin
  \/ BeforeEachRun
  \/ GenerateSequentialId
  \/ RegistryRegister("fs-1")
  \/ MockUseCoState
  \/ TestEnds

SpecSetup == InitSetup /\ [][NextSetup]_vars

\* The collection side of a behaviour that makes no collection.
NoCollection ==
  /\ now = 0
  /\ variant = "none"
  /\ simulateAsync = FALSE
  /\ loadDelay = MaxDelay
  /\ fileKind = "blob"
  /\ withTarget = FALSE
  /\ data = EmptyObject
  /\ list = <<>>
  /\ wrappers = <<>>
  /\ unhandled = {}
  /\ others = <<>>
  /\ last = NoCall
  /\ ops = 0
  /\ written = data
  /\ writtenPlain = data
  /\ calls = NoCalls
  /\ made = <<>>
  /\ initialItems = list
  /\ peerData = data
  /\ peerList = list
  /\ peerCalls = NoCalls
  /\ setup = NotSetUp(TRUE, TRUE, TRUE, TRUE)
  /\ world = FreshWorld

inside == <<collection, calls, made, peers, setup, world, cleared>>

\* SpecContext: one JazzTestContext, on either backend, after create() has
\* returned it: the jazz backend holds the primary account in `accounts`.
InitContext ==
  /\ NoCollection
  /\ backendType \in {"mock", "jazz"}
  /\ accounts = IF backendType = "jazz" THEN <<Primary>> ELSE <<>>
  /\ creating = <<>>
  /\ links = {}
  /\ sync = "none"
  /\ groups = <<>>
  /\ account = NoAccount
  /\ hooks = ModuleHooks
  /\ cleared = NoClear

NextContext ==
  \/ WaitForSync /\ UNCHANGED <<inside, account, hooks>>
  \/ MockCreateAccount /\ UNCHANGED <<inside, account, hooks>>
  \/ JazzCreateAccount /\ UNCHANGED <<inside, account, hooks>>
  \/ \E t \in 1..Len(creating) : JazzToolsLoaded(t) /\ UNCHANGED <<inside, account, hooks>>
  \/ \E t \in 1..Len(creating) : JazzAccountMade(t) /\ UNCHANGED <<inside, account, hooks>>
  \/ \E t \in 1..Len(creating) : JazzLinked(t) /\ UNCHANGED <<inside, account, hooks>>
  \/ CreateGroup /\ UNCHANGED <<inside, account, hooks>>
  \/ \E g \in 1..Len(groups), a \in Held, role \in Roles :
       AddMember(g, a, role) /\ UNCHANGED <<inside, account, hooks>>
  \/ \E g \in 1..Len(groups), a \in Held :
       RemoveMember(g, a) /\ UNCHANGED <<inside, account, hooks>>

SpecContext == InitContext /\ [][NextContext]_vars

\* SpecWrappers: a record or a list in deferred-loading mode; a test inserts
\* attachment-bearing items and other values, overwrites and removes them,
\* reads the wrappers and cancels in bulk, while the clock runs.
InitWrappers ==
  /\ now = 0
  /\ variant \in {"record", "list"}
  /\ simulateAsync = TRUE
  /\ loadDelay \in {1, MaxDelay}
  /\ fileKind \in Kinds
  /\ withTarget = FALSE
  /\ data = (IF variant = "list" THEN ListMeta ELSE EmptyObject)
  /\ list = <<>>
  /\ wrappers = <<>>
  /\ unhandled = {}
  /\ others = <<>>
  /\ last = NoCall
  /\ ops = 0
  /\ written = data
  /\ writtenPlain = data
  /\ AuxInit

NextWrappers ==
  \/ Tick /\ UNCHANGED aux
  \/ \E i \in 1..Len(wrappers) : TimerFire(i) /\ UNCHANGED aux
  \/ \E i \in 1..Len(wrappers) : AwaitResume(i) /\ UNCHANGED aux
  \/ \E i \in 1..Len(wrappers) : CallToBlob(i) /\ UNCHANGED aux
  \/ ClearBlobLoaderTimers /\ UNCHANGED auxOfClear
  \/ \E k \in TimingKeys, v \in TimingValues : JazzSet(k, v) /\ UNCHANGED aux
  \/ \E k \in TimingKeys : JazzDelete(k) /\ UNCHANGED aux
  \/ \E v \in TimingValues : ListPush(v) /\ UNCHANGED aux
  \/ \E index \in {0}, count \in {1} : ListSplice(index, count, <<>>) /\ UNCHANGED aux

SpecWrappers == InitWrappers /\ [][NextWrappers]_vars

\* SpecAccount: the account of createMockAccount({ root, trackMutations }), for
\* a plain root object and for a root made by createMockCoMap (as the mock
\* backend passes), and the $jazz of account.root.
RootObjects == {[EmptyObject EXCEPT !["a"] = Prim1], CoMapObject([EmptyObject EXCEPT !["a"] = PlainObj])}

InitAccount ==
  /\ now = 0
  /\ variant = "account"
  /\ simulateAsync = FALSE
  /\ loadDelay = MaxDelay
  /\ fileKind = "blob"
  /\ withTarget \in BOOLEAN
  /\ data \in RootObjects
  /\ list = <<>>
  /\ wrappers = <<>>
  /\ unhandled = {}
  /\ others = <<>>
  /\ last = NoCall
  /\ ops = 0
  /\ written = data
  /\ writtenPlain = data
  /\ calls = NoCalls
  /\ made = <<>>
  /\ initialItems = list
  /\ peerData = EmptyObject
  /\ peerList = list
  /\ peerCalls = NoCalls
  /\ setup = NotSetUp(TRUE, TRUE, TRUE, TRUE)
  /\ world = FreshWorld
  /\ backendType = "mock"
  /\ accounts = <<>>
  /\ creating = <<>>
  /\ links = {}
  /\ sync = "none"
  /\ groups = <<>>
  /\ account = CreateMockAccount(data)
  /\ hooks = ModuleHooks
  /\ cleared = NoClear

NextAccount ==
  \/ \E k \in Keys, v \in Values : ApiSet(k, v) /\ UNCHANGED aux
  \/ \E k \in Keys : ApiDelete(k) /\ UNCHANGED aux
  \/ \E k \in Keys : ApiRead(k) /\ UNCHANGED aux

SpecAccount == InitAccount /\ [][NextAccount]_vars

\* SpecHooks: the module's hook mocks and the isolated contexts a test makes.
HookInputs ==
  { <<"usePasskeyAuth", "ready">>, <<"usePasskeyAuth", "anonymous">>,
    <<"useCoState", "data-1">>, <<"useCoState", "null">>,
    <<"useAccount", "account-1">>, <<"useAccount", "account-2">>, <<"useAccount", "undefined">>,
    <<"useIsAuthenticated", "true">> }

InitHooks ==
  /\ NoCollection
  /\ OutsideInit

NextHooks ==
  \/ CreateIsolatedMockContext /\ UNCHANGED <<inside, fluent, account>>
  \/ \E in \in HookInputs : ConfigureHook(Module, in[1], in[2]) /\ UNCHANGED <<inside, fluent, account>>
  \/ ResetHooks(Module) /\ UNCHANGED <<inside, fluent, account>>
  \/ \E c \in 2..Len(hooks), in \in HookInputs :
       ConfigureHook(c, in[1], in[2]) /\ UNCHANGED <<inside, fluent, account>>
  \/ \E c \in 2..Len(hooks) : ResetHooks(c) /\ UNCHANGED <<inside, fluent, account>>

SpecHooks == InitHooks /\ [][NextHooks]_vars

\* SpecMockGroup: groups made by createMockGroup itself, with and without a
\* members option, and the calls of their addMember / removeMember.
MemberOptions == {NoMembers, <<>>, <<1>>, <<1, 2>>}
MemberIds == {1, 2}

InitMockGroup ==
  /\ NoCollection
  /\ OutsideInit

NextMockGroup ==
  \/ \E optMembers \in MemberOptions :
       MakeMockGroup(optMembers) /\ UNCHANGED <<inside, account, hooks>>
  \/ \E g \in 1..Len(groups), m \in MemberIds :
       MockGroupAddMember(g, m) /\ UNCHANGED <<inside, account, hooks>>
  \/ \E g \in 1..Len(groups), id \in MemberIds :
       MockGroupRemoveMember(g, id) /\ UNCHANGED <<inside, account, hooks>>

SpecMockGroup == InitMockGroup /\ [][NextMockGroup]_vars

----------------------------------------------------------------------------
(* Notions the claims are stated in *)

WrapperIds == 1..Len(wrappers)

\* a defined result of file.toBlob(): a Blob or null
Defined(r) == r \in {"blob", "defaultBlob", "null"}

\* value v carries an attachment: a non-null object with a `file` field
HasFile(v) == v.t = "object" /\ v.fkind # "nofield"

\* s is a shallow copy of v whose file is a delayed wrapper (one of ws) around v's file
IsWrappedCopy(s, v, ws) ==
  /\ s.t = "object" /\ s.name = v.name /\ s.ref # v.ref
  /\ s.fkind = "wrapper" /\ s.fw \in 1..Len(ws)
  /\ ws[s.fw].kind = v.fkind

\* s is v itself, or in deferred mode its attachment-wrapped copy
Represents(s, v) ==
  s = v \/ (simulateAsync /\ HasFile(v) /\ IsWrappedCopy(s, v, wrappers))

WriteThrough == variant = "record" \/ (variant = "api" /\ withTarget)
Has(k) == IF variant = "record" THEN RecordHas(k) ELSE ApiHas(k)
Get(k) == IF variant = "record" THEN RecordGet(k) ELSE ApiGet(k)
\* collection[k]: through the Proxy for a record, the target's own lookup for an API
PropertyRead(k) == IF variant = "record" THEN ProxyGet(k) ELSE ReadData(k)

\* what splice(index, count, ...items) is to leave in the list: the kept prefix,
\* the items (each itself or its wrapped copy), the kept suffix
SpliceInserted(old, new, index, count, items, ws) ==
  LET start == SpliceStart(Len(old), index)
      dc == SpliceCount(Len(old), index, count)
  IN /\ Len(new) = Len(old) - dc + Len(items)
     /\ \A j \in 1..start : new[j] = old[j]
     /\ \A j \in 1..Len(items) :
          IF simulateAsync /\ HasFile(items[j])
            THEN IsWrappedCopy(new[start + j], items[j], ws)
            ELSE new[start + j] = items[j]
     /\ \A j \in (start + dc + 1)..Len(old) : new[j - dc + Len(items)] = old[j]

\* the argument lists of the calls made to method m, in the order they were made
CallsMade(m) ==
  LET IsM(e) == e.m = m
      sel == SelectSeq(made, IsM)
  IN [j \in 1..Len(sel) |-> sel[j].args]

\* s is what inserting v is to store: its wrapped copy in deferred mode when v
\* carries an attachment, v itself otherwise
StoredFor(s, v) ==
  IF simulateAsync /\ HasFile(v) THEN IsWrappedCopy(s, v, wrappers) ELSE s = v

----------------------------------------------------------------------------
(* Claims C1 - C10 *)

\* C1: after an attachment-bearing item is inserted with delay D, file.toBlob()
\* is undefined at every instant before D has elapsed and is a Blob or null at
\* every instant from D on (once the callback is not waiting on a promise),
\* for every kind of original toBlob.
C1_UndefinedThenDefined ==
  NoDue =>
    \A i \in WrapperIds :
      /\ now < wrappers[i].due => ToBlob(wrappers[i]) = "undefined"
      /\ (now >= wrappers[i].due /\ wrappers[i].timer = "fired"
            /\ wrappers[i].pc # "awaiting") => Defined(ToBlob(wrappers[i]))

\* C2: an original toBlob that throws synchronously leaves the wrapper
\* Resolved(null): undefined before the delay, null after it, and no unhandled
\* rejection.
C2_SyncThrowEndsNull ==
  NoDue =>
    \A i \in WrapperIds :
      wrappers[i].kind = "throws" =>
        /\ now < wrappers[i].due => ToBlob(wrappers[i]) = "undefined"
        /\ wrappers[i].timer = "fired" => ToBlob(wrappers[i]) = "null"
        /\ i \notin unhandled

\* C3: an original toBlob whose promise rejects leaves the wrapper
\* Resolved(null) once the delay has elapsed and the rejection was delivered,
\* and the rejection reaches no caller.
C3_RejectionEndsNull ==
  \A i \in WrapperIds :
    (wrappers[i].kind = "pReject" /\ wrappers[i].timer = "fired"
       /\ wrappers[i].pc # "awaiting") =>
      /\ ToBlob(wrappers[i]) = "null"
      /\ i \notin unhandled

\* C4: an original toBlob that yields undefined or null, synchronously or as
\* the value of a resolved promise, leaves the wrapper Resolved(null): after
\* the delay file.toBlob() is null, not the undefined of Pending.
C4_EmptyEndsNull ==
  \A i \in WrapperIds :
    (wrappers[i].kind \in {"undef", "null", "pUndef", "pNull"}
       /\ wrappers[i].timer = "fired" /\ wrappers[i].pc # "awaiting") =>
      ToBlob(wrappers[i]) = "null"

\* C5: a wrapper whose timer was pending (its delay not yet elapsed) when the
\* bulk cancel was called stays Pending for good: at every later time
\* file.toBlob() is undefined and its original toBlob has not been invoked.
C5_CancelledStayPending ==
  \A i \in cleared.pending :
    ToBlob(wrappers[i]) = "undefined" /\ wrappers[i].calls = 0

\* C6: $jazz.splice(index, count, ...items) removes count elements at index and
\* puts the items there in order, readable at once at their new indices, each
\* attachment-bearing item wrapped in deferred mode.
C6_SpliceInsertsItems ==
  [][\A index \in -1..MaxLen, count \in SpliceCounts, items \in SpliceItems :
       ListSplice(index, count, items) =>
         SpliceInserted(list, list', index, count, items, wrappers')]_vars

\* C7: Object.keys of a reactive record or list never holds '$isLoaded' or
\* '$jazz', whatever keys were set, deleted or assigned, while both names are
\* `in` the collection.
C7_MetaHiddenButPresent ==
  /\ variant = "record" =>
       /\ ObjectKeys \cap MetaKeys = {}
       /\ \A m \in MetaKeys : ProxyHas(m)
  /\ variant = "list" =>
       /\ ListObjectKeys \cap MetaKeys = {}
       /\ \A m \in MetaKeys : ListHas(m)

\* $jazz.set was called with the key '$jazz' and with an ordinary key
C7_Witness ==
  /\ variant = "record"
  /\ {"$jazz", "a"} \subseteq OwnKeys
  /\ "a" \in ObjectKeys

\* C8: $jazz.set(key, value) stores a wrapped shallow copy, with a new wrapper
\* whose timer is scheduled, exactly when simulateAsyncLoading is on and value
\* is a non-null object with a `file` field; otherwise it stores the very
\* value and creates no wrapper or timer.
C8_SetWrapsExactlyAttachments ==
  [][\A k \in Keys, v \in Values :
       JazzSet(k, v) =>
         IF simulateAsync /\ HasFile(v)
           THEN /\ IsWrappedCopy(data'[k], v, wrappers')
                /\ data'[k].fw = Len(wrappers) + 1
                /\ Len(wrappers') = Len(wrappers) + 1
                /\ wrappers'[Len(wrappers')].timer = "scheduled"
                /\ wrappers'[Len(wrappers')].due = now + loadDelay
           ELSE /\ data'[k] = v
                /\ wrappers' = wrappers]_vars

\* an attachment was set in deferred mode and stored wrapped
C8_Witness ==
  /\ variant = "record" /\ simulateAsync
  /\ last.op = "set"
  /\ HasFile(written[last.key])
  /\ data[last.key].fkind = "wrapper"

\* C9 as stated: right after $jazz.set(k, v) on a write-through collection,
\* get(k) is v (or its wrapped copy), has(k) is true, and collection[k] reads
\* the same value as get(k), for every key k.
C9_SetThenGetEveryKey ==
  (last.op = "set" /\ WriteThrough) =>
    /\ Represents(Get(last.key), written[last.key])
    /\ Has(last.key)
    /\ PropertyRead(last.key) = Get(last.key)

\* C9 as amended: the same, the property read being claimed for every key but
\* the two meta names '$isLoaded' and '$jazz' (which read as true and as the
\* $jazz object on a reactive record).
C9_SetThenGet ==
  (last.op = "set" /\ WriteThrough) =>
    /\ Represents(Get(last.key), written[last.key])
    /\ Has(last.key)
    /\ (variant = "record" /\ last.key \in MetaKeys)
         \/ PropertyRead(last.key) = Get(last.key)

\* undefined was set under an ordinary key of a write-through collection
C9_Witness ==
  /\ last.op = "set" /\ WriteThrough
  /\ last.key \notin MetaKeys
  /\ written[last.key] = Undefined

\* C10 as stated: on a reactive record has(k) is true exactly for the keys
\* last written and not deleted, by $jazz.set or by an assignment to a key
\* that is not a meta name, and get(k) returns that value (undefined
\* otherwise).
C10_HasGetReflectEveryWrite ==
  variant = "record" =>
    \A k \in Keys :
      /\ RecordHas(k) <=> written[k].t # "absent"
      /\ written[k].t # "absent" => Represents(RecordGet(k), written[k])
      /\ written[k].t = "absent" => RecordGet(k) = Undefined

\* C10 as amended: has(k) is true exactly for the keys last written and not
\* deleted, by $jazz.set or by an assignment to a key that does not start with
\* '$', and for the names inherited from Object.prototype; get(k) returns the
\* value last written so and, when there is none, the inherited function for
\* an inherited name and undefined for any other; has and get change nothing
\* stored.  The keys are ordinary property names: '__proto__', the accessor
\* of the object's prototype, is not among them.
C10_HasGetReflectWrites ==
  /\ [](variant = "record" =>
          \A k \in Keys :
            /\ RecordHas(k) <=> (writtenPlain[k].t # "absent" \/ k \in InheritedKeys)
            /\ writtenPlain[k].t # "absent" => Represents(RecordGet(k), writtenPlain[k])
            /\ (writtenPlain[k].t = "absent" /\ k \in InheritedKeys)
                 => RecordGet(k) = ProtoFn
            /\ (writtenPlain[k].t = "absent" /\ k \notin InheritedKeys)
                 => RecordGet(k) = Undefined)
  /\ [][(\E k \in Keys : JazzHas(k) \/ JazzGet(k)) => data' = data]_vars

\* an ordinary key is stored and the last call assigned to '$foo'
C10_Witness ==
  /\ variant = "record"
  /\ last = Call("assign", "$foo")
  /\ data["a"].t # "absent"
  /\ data["$foo"].t = "absent"

----------------------------------------------------------------------------
(* Claims C11 - C20 *)

\* C11: assigning directly to a '$'-prefixed name ('$isLoaded', '$jazz', '$foo')
\* on a reactive record or list raises no error and has no effect: the stored
\* keys, the elements and the wrappers are as before, so a later read of the
\* name gives what it gave before.
C11_DollarAssignIgnored ==
  [][\A prop \in DollarKeys, v \in AssignValues :
       (ProxySet(prop, v) \/ \E strict \in BOOLEAN : ListAssign(prop, v, strict)) =>
         /\ last'.op = "assign"
         /\ data' = data /\ list' = list /\ wrappers' = wrappers]_vars

\* C12: in every state reading '$isLoaded' gives true and reading '$jazz' gives
\* the $jazz object made with the collection, on a record and on a list,
\* whatever keys (the two names among them) were set, deleted or assigned.
C12_MetaAlwaysReadable ==
  /\ variant = "record" =>
       ProxyGet("$isLoaded") = TrueVal /\ ProxyGet("$jazz") = JazzApi
  /\ variant = "list" =>
       ListGet("$isLoaded") = TrueVal /\ ListGet("$jazz") = JazzApi

\* $jazz.set stored values under both meta names of a record
C12_Witness ==
  /\ variant = "record"
  /\ MetaKeys \subseteq OwnKeys
  /\ last.op = "set" /\ last.key \in MetaKeys

\* C13: a wrapper around a file without a toBlob function gives undefined
\* before its delay has elapsed and the default placeholder Blob from then on
\* (its timer having run at its due time), in a record and in a list.
C13_MissingToBlobEndsDefault ==
  \A i \in WrapperIds :
    wrappers[i].kind = "absent" =>
      /\ now < wrappers[i].due => ToBlob(wrappers[i]) = "undefined"
      /\ wrappers[i].timer = "fired" => ToBlob(wrappers[i]) = "defaultBlob"
      /\ (NoDue /\ now >= wrappers[i].due) => wrappers[i].timer = "fired"

\* push({file: {}}) on a list in deferred mode, read after the delay
C13_Witness ==
  /\ variant = "list"
  /\ \E j \in 1..Len(list) :
       /\ list[j].fkind = "wrapper"
       /\ wrappers[list[j].fw].kind = "absent"
       /\ now >= wrappers[list[j].fw].due
       /\ ToBlob(wrappers[list[j].fw]) = "defaultBlob"

\* C14: the bulk cancel completes, and it cancels wrapper timers only.  A timer
\* of unrelated code runs at its own due time, whenever the cancel is called;
\* and a wrapper made after a call of the cancel is Resolved once its own
\* delay has elapsed and its callback has run to its end.
C14_CancelOnlyWrapperTimers ==
  /\ last.op # "clearThrew"
  /\ NoDue =>
       \A j \in 1..Len(others) :
          others[j].state = (IF others[j].due <= now THEN "fired" ELSE "scheduled")
  /\ cleared.first # NeverCleared =>
       \A i \in 1..Len(wrappers) :
          (i > cleared.first /\ NoDue /\ now >= wrappers[i].due
             /\ wrappers[i].pc # "awaiting") => wrappers[i].blobReady

\* C15: the bulk cancel never throws, whether wrapper timers are pending or
\* none is, and a call right after a call changes nothing: the wrappers, the
\* timers and the stored values are as the first call left them.
C15_CancelIdempotent ==
  /\ [][last'.op \in ClearOps => last'.op = "clear"]_vars
  /\ [][(last.op \in ClearOps /\ last'.op \in ClearOps) =>
          wrappers' = wrappers /\ others' = others /\ data' = data /\ list' = list]_vars

\* C16: for each $jazz method of a record and of a list, the spy's recorded
\* calls are exactly the calls made to that method, in the order made and with
\* all their arguments (the inserted items of a splice among them), whether
\* the call stored, wrapped, removed or did nothing.
C16_CallLogExact ==
  \A m \in Methods : calls[m] = CallsMade(m)

\* a push that wrapped its value, a splice given an item to insert, and a has
C16_Witness ==
  /\ variant = "list" /\ simulateAsync
  /\ Len(made) = 3
  /\ made[1].m = "push" /\ HasFile(made[1].args[1]) /\ Len(wrappers) = 1
  /\ made[2].m = "splice" /\ Len(made[2].args) = 3
  /\ made[3].m = "has"

\* C17: as long as only push (and the methods that store nothing) was called
\* on a list, the list is the initial items followed by the pushed values in
\* push order, one element per push, each attachment-bearing value stored as a
\* wrapped copy in deferred mode and every other value as itself.
C17_PushAppends ==
  (variant = "list" /\ CallsMade("splice") = <<>>) =>
    LET pushed == CallsMade("push")
        n == Len(initialItems)
    IN /\ Len(list) = n + Len(pushed)
       /\ SubSeq(list, 1, n) = initialItems
       /\ \A j \in 1..Len(pushed) : StoredFor(list[n + j], pushed[j][1])

\* a plain value and then an attachment pushed in deferred mode, with calls
\* that store nothing in between
C17_Witness ==
  /\ variant = "list" /\ simulateAsync
  /\ CallsMade("splice") = <<>>
  /\ Len(made) = 3 /\ Len(CallsMade("push")) = 2
  /\ Len(list) = 2
  /\ list[1] = Prim1 /\ list[2].fkind = "wrapper"

\* C18: no step changes two collections, or a collection and the caller's
\* array: an operation on one collection (set, delete, push, splice, direct
\* assignment) leaves the contents and the recorded calls of the other and
\* the initialItems array as they were, and a change of the initialItems array
\* leaves both lists as they were.
C18_NoSharedState ==
  [][/\ (data' # data \/ list' # list \/ calls' # calls) =>
          (peerData' = peerData /\ peerList' = peerList /\ peerCalls' = peerCalls
             /\ initialItems' = initialItems)
     /\ (peerData' # peerData \/ peerList' # peerList \/ peerCalls' # peerCalls) =>
          (data' = data /\ list' = list /\ calls' = calls
             /\ initialItems' = initialItems)
     /\ initialItems' # initialItems => (list' = list /\ peerList' = peerList)]_vars

\* two lists made from one array: each of the three has been changed and they
\* differ from one another
C18_Witness ==
  /\ variant = "list"
  /\ Len(calls["push"]) > 0 /\ Len(peerCalls["splice"]) > 0
  /\ list # peerList /\ list # initialItems /\ peerList # initialItems
  /\ Len(initialItems) = 2 /\ Len(peerList) = 0

\* C19: on the object of createMockCoMap / createMockCoRecord.  Without
\* trackMutations no $jazz.set or $jazz.delete changes any property of the
\* object, has is false and get is undefined for every key.  With
\* trackMutations $jazz.set(k, v) leaves obj[k] = v and $jazz.delete(k) leaves
\* the object without an own property k, the other properties as they were.
C19_TrackMutationsDecides ==
  /\ [](variant = "comap" =>
          IF withTarget
            THEN /\ last.op = "set" => ReadData(last.key) = written[last.key]
                 /\ last.op = "delete" => data[last.key].t = "absent"
            ELSE \A k \in Keys : ~ApiHas(k) /\ ApiGet(k) = Undefined)
  /\ [][variant = "comap" =>
          IF withTarget
            THEN \A k \in Keys :
                   (\A v \in Values : ~ApiSet(k, v)) /\ ~ApiDelete(k) => data'[k] = data[k]
            ELSE data' = data]_vars

\* spy-only mode: set was called on an existing property, which kept its value
C19_Witness ==
  /\ variant = "comap" /\ ~withTarget
  /\ last = Call("set", "a")
  /\ written["a"] = PlainObj
  /\ data["a"] = Prim1

\* C20: once the promise of setupJazzMocks() has resolved, and so at every
\* moment from the start of the first test on, the cleanup callback is
\* registered if a global beforeEach exists; and each run of the callback
\* resets the id counter, empties the FileStream registry and resets the React
\* mocks, each unless its option is false, in which case it is left as it is.
C20_RegisteredBeforeTests ==
  /\ []((setup.promise = "resolved" /\ setup.hasBeforeEach) => setup.registered)
  /\ []((world.phase # "setupFile" /\ setup.hasBeforeEach) => setup.registered)
  /\ [][(BeforeEachRun /\ setup.hasBeforeEach) =>
          /\ world'.idCounter = (IF setup.resetIds THEN 0 ELSE world.idCounter)
          /\ world'.registry = (IF setup.clearFileRegistry THEN {} ELSE world.registry)
          /\ world'.reactMocks =
               (IF setup.resetReactMocks THEN "default" ELSE world.reactMocks)]_vars

\* the second test has started: the callback has emptied the registry that the
\* first test filled, and has left the id counter as the option says
C20_Witness ==
  /\ setup.registered
  /\ ~setup.resetIds /\ setup.clearFileRegistry /\ setup.resetReactMocks
  /\ world.phase = "inTest" /\ world.tests = 2
  /\ world.idCounter = 1 /\ world.registry = {} /\ world.reactMocks = "default"

\* every createAccount call of the test has returned
AllReturned == \A t \in 1..Len(creating) : creating[t].pc = "done"

\* the role the calls logged for a group leave an account with: that of the
\* last addMember for it, unless a removeMember for it came later
RECURSIVE LastRole(_, _)
LastRole(log, a) ==
  IF log = <<>> THEN NoRole
  ELSE LET e == log[Len(log)]
       IN IF e.acct = a
            THEN (IF e.op = "add" THEN e.role ELSE NoRole)
            ELSE LastRole(SubSeq(log, 1, Len(log) - 1), a)

\* C21: ctx.waitForSync() never ends in an error, on either backend, and a
\* call of it changes no account, no link, no group and no role.
C21_WaitForSyncCompletes ==
  /\ [](sync # "rejected")
  /\ [][sync' # sync => UNCHANGED <<accounts, creating, links, groups>>]_vars

\* C22: on the jazz backend, once every createAccount call has returned, any
\* two distinct accounts of the backend are linked, whatever the order in which
\* the awaits of concurrent calls resumed; and the backend holds exactly the
\* accounts that were made.
C22_AllPairsLinked ==
  (backendType = "jazz" /\ AllReturned) =>
     /\ {accounts[i] : i \in 1..Len(accounts)} = Held
     /\ \A a \in Held, b \in Held : a # b => {a, b} \in links

\* two calls were in flight together: the account made second was pushed first
C22_Witness ==
  /\ backendType = "jazz"
  /\ Len(creating) = 2 /\ AllReturned
  /\ accounts = <<Primary, 3, 2>>
  /\ {2, 3} \in links

\* C23: on the mock backend, for every group and account, getRoleOf is the
\* role of the most recent addMember for the account that no removeMember
\* followed, undefined otherwise; canRead iff it is defined, canWrite iff it is
\* writer or admin, canAdmin iff it is admin; and a group on which no call was
\* made in a step keeps its roles, whatever was called on the other groups.
C23_RoleIsLastAdded ==
  /\ [](\A g \in 1..Len(groups), a \in AccountIds :
          LET expected == LastRole(groups[g].log, a)
          IN /\ GetRoleOf(groups[g], a) = expected
             /\ CanRead(groups[g], a) <=> expected # NoRole
             /\ CanWrite(groups[g], a) <=> expected \in {"writer", "admin"}
             /\ CanAdmin(groups[g], a) <=> expected = "admin"
             /\ CanAdmin(groups[g], a) => CanWrite(groups[g], a)
             /\ CanWrite(groups[g], a) => CanRead(groups[g], a))
  /\ [][\A h \in 1..Len(groups) :
          groups'[h].log = groups[h].log => groups'[h].roles = groups[h].roles]_vars

\* an account was added to the first group as reader and then as writer; it
\* has no role in the second group
C23_Witness ==
  /\ Len(groups) = 2
  /\ Len(groups[1].log) = 3
  /\ groups[1].log[2] = [op |-> "add", acct |-> 2, role |-> "reader"]
  /\ groups[1].log[3] = [op |-> "add", acct |-> 2, role |-> "writer"]
  /\ GetRoleOf(groups[1], 2) = "writer"
  /\ GetRoleOf(groups[2], 2) = NoRole

\* C24: the group ctx.createGroup() returns on the mock backend has the primary
\* account as admin and nobody else in any role: right after the call canAdmin,
\* canWrite and canRead are true for ctx.account and false for every other account.
C24_OwnerIsAdmin ==
  [][CreateGroup =>
       LET g == groups'[Len(groups')]
       IN /\ CanAdmin(g, Primary) /\ CanWrite(g, Primary) /\ CanRead(g, Primary)
          /\ \A a \in AccountIds \ {Primary} :
               ~CanAdmin(g, a) /\ ~CanWrite(g, a) /\ ~CanRead(g, a)]_vars

\* a group was made after two more accounts were, and nothing was done to it since
C24_Witness ==
  /\ backendType = "mock"
  /\ Held = {Primary, 2, 3}
  /\ Len(groups) = 1
  /\ Len(groups[1].log) = 1
  /\ CanAdmin(groups[1], Primary) /\ ~CanRead(groups[1], 2)

\* x is an element of the sequence
InSeq(x, seq) == \E i \in 1..Len(seq) : seq[i] = x

\* C25: for a group of createMockGroup, after addMember(m) group.members
\* contains m, after removeMember(id) it contains no member with that id, and
\* the array the caller passed as the members option is as the caller made it.
C25_MembersFollowCalls ==
  /\ [](\A g \in 1..Len(groups) :
          (~groups[g].wrapped /\ groups[g].log # <<>>) =>
             LET e == groups[g].log[Len(groups[g].log)]
             IN IF e.op = "add" THEN InSeq(e.acct, groups[g].members)
                                ELSE ~InSeq(e.acct, groups[g].members))
  /\ [](\A g \in 1..Len(groups) :
          (~groups[g].wrapped /\ groups[g].given # NoMembers) =>
             CallerMembers(groups[g]) = groups[g].given)

\* C27: for an account of createMockAccount with a root object and
\* trackMutations, after account.root.$jazz.set(k, v) account.root[k] is v and
\* account.root.$jazz.get(k) is what account.root[k] reads; and the root object
\* the caller passed is as the caller made it.
C27_RootTracksSet ==
  /\ []((variant = "account" /\ withTarget /\ last.op = "set") =>
          /\ AccountRootGet(last.key) = written[last.key]
          /\ ApiGet(last.key) = AccountRootGet(last.key))
  /\ []((variant = "account" /\ withTarget) => data = account.given)

\* C26: mock contexts share no state.  Whatever is called on one set of hook
\* mocks (configure or reset, on an isolated context or on the module's own),
\* every hook of every other set returns what it returned before; and a
\* context starts with the default implementations, whatever the others hold.
C26_ContextsIsolated ==
  /\ [][\A d \in 1..Len(hooks), hook \in HookNames :
          hooks'[d].configured = hooks[d].configured =>
             hooks'[d].impl[hook] = HookReturns(d, hook)]_vars
  /\ [][CreateIsolatedMockContext =>
          \A hook \in HookNames : hooks'[Len(hooks')].impl[hook] = DefaultImpls[hook]]_vars

\* the module's mocks and one context were configured differently, and a
\* second context was reset: each returns its own
C26_Witness ==
  /\ Len(hooks) = 3
  /\ HookReturns(Module, "useAccount") = "account-1"
  /\ HookReturns(2, "useAccount") = "account-2"
  /\ hooks[3].configured = 1
  /\ HookReturns(3, "useAccount") = "logOutOnly"

\* the kinds of toBlob with which the timer callback runs to its end without
\* an await or a throw
ResolvedInCallback == {"blob", "undef", "null", "absent"}

\* the calls through $jazz that change what a collection stores
StoreOps == {"set", "delete", "push", "splice"}

\* C28: a wrapper starts Pending; once its toBlob() has returned a defined
\* value (a blob or null), it returns that value in every later state: no call
\* on the collection, no timer, no resumed await and no bulk cancel changes it.
C28_ResolvedOnce ==
  /\ [][\A i \in 1..Len(wrappers) :
          ToBlob(wrappers[i]) # "undefined" => ToBlob(wrappers'[i]) = ToBlob(wrappers[i])]_vars
  /\ [][\A i \in 1..Len(wrappers') :
          i > Len(wrappers) => ToBlob(wrappers'[i]) = "undefined"]_vars

\* the first wrapper resolved to a blob; a second item was inserted and the
\* bulk cancel called since, while the second was Pending
C28_Witness ==
  /\ Len(wrappers) = 2
  /\ ToBlob(wrappers[1]) = "blob"
  /\ ToBlob(wrappers[2]) = "undefined"
  /\ last.op \in ClearOps

\* C29: the original toBlob of an inserted attachment is called at most once,
\* and only in the step in which the timer of its wrapper fires; a call of the
\* wrapper's toBlob(), Pending or Resolved, leaves every wrapper as it was.
C29_OriginalCalledByTimerOnly ==
  /\ [](\A i \in 1..Len(wrappers) : wrappers[i].calls <= 1)
  /\ [][\A i \in 1..Len(wrappers) :
          wrappers'[i].calls # wrappers[i].calls =>
             Due(i) /\ wrappers'[i].timer = "fired" /\ last' = NoCall]_vars
  /\ [][last'.op = "toBlob" => wrappers' = wrappers]_vars

\* toBlob() was just called; one wrapper is Resolved, its original called
\* once, the other is Pending, its original not called
C29_Witness ==
  /\ last = Call("toBlob", "")
  /\ Len(wrappers) = 2
  /\ wrappers[1].blobReady /\ wrappers[1].calls = 1
  /\ ~wrappers[2].blobReady /\ wrappers[2].calls = 0 /\ wrappers[2].timer = "scheduled"

\* What C30 says of insertion, overwriting and removal: an insertion that
\* wraps makes one new wrapper, Pending, with a timer due one delay after the
\* insertion, and leaves the earlier wrappers as they are; so do set, delete,
\* push and splice in general; and no wrapper is Resolved before its due time.
OwnWrapperOwnTimer ==
  /\ [][\A i \in 1..Len(wrappers') :
          i > Len(wrappers) =>
             /\ Len(wrappers') = Len(wrappers) + 1
             /\ wrappers'[i].due = now + loadDelay
             /\ wrappers'[i].timer = "scheduled"
             /\ ~wrappers'[i].blobReady]_vars
  /\ [][last'.op \in StoreOps =>
          \A i \in 1..Len(wrappers) : wrappers'[i] = wrappers[i]]_vars
  /\ [](\A i \in 1..Len(wrappers) : now < wrappers[i].due => ~wrappers[i].blobReady)

\* C30, as stated: the above, and of two items the one inserted later is
\* Resolved only if the one inserted earlier is.
C30_ResolveInInsertionOrder ==
  /\ OwnWrapperOwnTimer
  /\ [](\A i \in 1..Len(wrappers), j \in 1..Len(wrappers) :
          (i < j /\ wrappers[j].blobReady) => wrappers[i].blobReady)

\* C30, amended: the above, and the timers fire in insertion order: when the
\* timer of an item has fired, no timer of an earlier item is still to fire;
\* an item whose toBlob is absent or returns synchronously is Resolved once
\* its timer has fired.
C30_TimersInInsertionOrder ==
  /\ OwnWrapperOwnTimer
  /\ [](\A i \in 1..Len(wrappers), j \in 1..Len(wrappers) :
          (i < j /\ wrappers[j].timer = "fired") => wrappers[i].timer # "scheduled")
  /\ [](\A i \in 1..Len(wrappers) :
          (wrappers[i].timer = "fired" /\ wrappers[i].kind \in ResolvedInCallback) =>
             wrappers[i].blobReady)

\* a key was overwritten while its first wrapper was Pending: both wrappers
\* resolved, each at its own due time, and the key holds the second
C30_Witness ==
  /\ variant = "record"
  /\ Len(wrappers) = 2
  /\ wrappers[1].due < wrappers[2].due
  /\ wrappers[1].blobReady /\ wrappers[2].blobReady
  /\ data["a"].fkind = "wrapper" /\ data["a"].fw = 2

====
